---- MODULE Spec2Model ----
(***************************************************************************)
(* Model of the LLM-response ingestion pipeline of lethal-markets:         *)
(*   - the client-side crisis services with their TTL caches               *)
(*     (FastApiService, SecureApiService, GPTCrisisService,                *)
(*      ProfitPredictorService), one service instance per behaviour;       *)
(*   - the Express server's POST /api/analyze-crisis and                   *)
(*     POST /api/analyze-financial handlers;                               *)
(*   - the consent-gated feature pages and the RealTimeDataManager         *)
(*     (specification Spec; SpecLive adds the fairness the runtime         *)
(*     guarantees);                                                        *)
(*   - the pure functions of the pipeline: the two cleanJsonResponse,      *)
(*     the two processEvents and the four static fallback datasets, each   *)
(*     applied to an input drawn from a bounded set (specification         *)
(*     SpecPure).                                                          *)
(* Every await of the source is a separate step, so that other calls,      *)
(* cache invalidations and the clock interleave where they can in the      *)
(* JavaScript event loop.                                                  *)
(***************************************************************************)
EXTENDS Integers, Sequences, FiniteSets, Bags, TLC

\* ---------------------------------------------------------------- bounds
\* Number of getCrisisData / getAllCrisisData / analyzeProfitOpportunities
\* calls issued in one behaviour (the constructor's preload included).
MaxCalls == 2
\* Number of times the clock advances in one behaviour.
MaxTicks == 1
\* Number of HTTP requests the server receives in one behaviour.
MaxReqs == 2
\* Longest events list in the model's JSON.
MaxEvents == 2

\* ------------------------------------------------------- program constants
FAST_CACHE_DURATION == 60 * 60 * 1000
SECURE_CACHE_DURATION == 30 * 60 * 1000
GPT_CACHE_DURATION == 10 * 60 * 1000
PROFIT_CACHE_DURATION == 5 * 60 * 1000

Services == {"fast", "secure", "gpt", "profit"}
\* What a behaviour exercises: one client service instance, or the server.
Components == Services \cup {"server"}
\* The other parts a behaviour may exercise instead: a consent-gated page,
\* the RealTimeDataManager with its subscribers coming and going while it
\* runs ("subscribers"), the RealTimeDataManager started and stopped under
\* one subscriber ("realtime").
OtherComponents == {"page", "subscribers", "realtime"}

\* The TTL of the service under test.
CACHE_DURATION(s) ==
  CASE s = "fast" -> FAST_CACHE_DURATION
    [] s = "secure" -> SECURE_CACHE_DURATION
    [] s = "gpt" -> GPT_CACHE_DURATION
    [] OTHER -> PROFIT_CACHE_DURATION

VARIABLES
  sut,            \* the component this behaviour exercises
  now,            \* Date.now(), in ms since the instance was constructed
  ticks,          \* how many times the clock advanced
  cache,          \* this.cache (NoData models null / no map entry)
  lastFetch,      \* this.lastFetch.getTime() (Null models null)
  isLoading,      \* FastApiService.isLoading
  loadingPromise, \* FastApiService.loadingPromise: id of the call whose
                  \* fetchFreshData() promise it holds, 0 for null
  nIssued,        \* number of calls issued so far
  calls,          \* per call: position in its async function and outcome
  upd,            \* GPTCrisisService: updateSpecificEvent calls, edited caches
  token,          \* server: process.env.REPLICATE_API_TOKEN ("" when unset)
  nReqs,          \* server: number of HTTP requests received so far
  reqs,           \* server: per request, position in its handler and response
  san,            \* a text, and what the two cleanJsonResponse make of it
  coerce,         \* a parsed events list, and what processEvents makes of it
  fb,             \* the static dataset a fallback function returned
  page,           \* a feature page (TradingSignals, ProfitPredictor) and consents
  rt              \* RealTimeDataManager: subscriptions, intervals, deliveries

clientVars == <<sut, now, ticks, cache, lastFetch, isLoading, loadingPromise,
                nIssued, calls, upd>>

serverVars == <<token, nReqs, reqs>>

pureVars == <<san, coerce, fb>>

moreVars == <<page, rt>>

vars == <<sut, now, ticks, cache, lastFetch, isLoading, loadingPromise,
          nIssued, calls, upd, token, nReqs, reqs, san, coerce, fb, page, rt>>

Null == -1
NoData == [src |-> "none", id |-> 0]
\* A CrisisData object built from a backend response by call p.
Fresh(p) == [src |-> "backend", id |-> p]
\* GPTCrisisService: the CrisisData built from getFallbackData() after a
\* JSON parse error of call p (it goes through the normal success path).
ParsedFallback(p) == [src |-> "static", id |-> p]

CallIds == 1..MaxCalls

\* A call that has not been issued yet.
NoCall == [st |-> "new", force |-> FALSE, path |-> "none", prod |-> 0,
           seen |-> 0, checkAge |-> "none", health |-> 0, post |-> 0,
           res |-> NoData, how |-> "none", fail |-> "none", resAge |-> "none",
           stale |-> FALSE]

\* Date.now() - this.lastFetch.getTime(), Null when there is no lastFetch.
CacheAge == IF lastFetch = Null THEN Null ELSE now - lastFetch

\* The age of the cache entry against the TTL of the service under test, as
\* recorded in a call's history: "none" without an entry, "young" when
\* age < CACHE_DURATION, "old" when age >= CACHE_DURATION.
AgeClass(age) ==
  IF age = Null THEN "none"
  ELSE IF age < CACHE_DURATION(sut) THEN "young" ELSE "old"

\* Productions (fetchFreshData runs, or the try block of the other services)
\* that have been started and whose promise has not settled yet.
InFlight == {p \in CallIds : calls[p].st \in {"health", "post", "body", "run"}}

\* History of forceRefresh() / clearCache(): the productions in flight when
\* the cache is cleared started before the invalidation (field stale).
Invalidated ==
  [c \in CallIds |-> IF c \in InFlight THEN [calls[c] EXCEPT !.stale = TRUE]
                     ELSE calls[c]]

\* ------------------------------------------------------------ FallbackProvider
\* getFastFallbackData / getFallbackData / getFallbackOpportunities: a static
\* dataset, the same value on every call.
getFallbackData == [src |-> "static", id |-> 0]

\* ---------------------------------------------------------------- the clock
\* The clock advances between any two steps; the steps are chosen so that cache
\* ages just below the TTL (CACHE_DURATION - 1) and at the TTL occur.
TickDeltas == {CACHE_DURATION(sut) - 1, CACHE_DURATION(sut)}

Tick ==
  /\ sut \in Services
  /\ ticks < MaxTicks
  /\ \E d \in TickDeltas : now' = now + d
  /\ ticks' = ticks + 1
  /\ UNCHANGED <<sut, upd, cache, lastFetch, isLoading, loadingPromise, nIssued, calls>>
  /\ UNCHANGED <<serverVars, pureVars, moreVars>>

\* ------------------------------------------------------------- call records
\* The value of a promise that rejected (an exception leaving the function).
Rejected == [src |-> "rejected", id |-> 0]

\* How a value handed back by a catch block came about.
HowOfCatch(r) ==
  CASE r = Rejected -> "rejected"
    [] r = getFallbackData -> "fallback"
    [] OTHER -> "cacheOnError"

\* Call c issued: the state of the instance seen by its synchronous prefix.
Issued(force) ==
  [NoCall EXCEPT !.force = force, !.checkAge = AgeClass(CacheAge),
                 !.seen = IF InFlight = {} THEN 0 ELSE CHOOSE p \in InFlight : TRUE]

\* `return this.cache` from the cache check at the top of the function.
ReturnHit(force) ==
  [Issued(force) EXCEPT !.st = "done", !.path = "hit", !.res = cache,
                        !.how = "hit", !.resAge = AgeClass(CacheAge)]

\* The call's promise settles in state st with value r.
Settled(c, st, r, how, fail) ==
  [calls[c] EXCEPT !.st = IF r = Rejected THEN "rejected" ELSE st,
                   !.res = r, !.how = how,
                   !.fail = IF fail \in {"httpError", "throw", "badShape"}
                            THEN "error" ELSE fail,
                   !.resAge = IF how = "cacheOnError" THEN AgeClass(CacheAge)
                              ELSE IF how = "fresh" THEN "young" ELSE "none"]

\* ============================================================ FastApiService
\* The cache check with `<=` in place of `<`: an entry of age CACHE_DURATION
\* would still be served.
FastCacheHitInclusive(force) ==
  /\ ~force
  /\ cache # NoData
  /\ lastFetch # Null
  /\ CacheAge <= FAST_CACHE_DURATION

\* fastApiService.ts:23-25, the cache check of getCrisisData.
FastCacheHit(force) ==
  /\ ~force
  /\ cache # NoData
  /\ lastFetch # Null
  /\ CacheAge < FAST_CACHE_DURATION

\* The in-flight check with the promise test inverted: no caller ever joins.
FastAlreadyLoadingInverted == isLoading /\ loadingPromise = 0

\* fastApiService.ts:32, `this.isLoading && this.loadingPromise`.
FastAlreadyLoading == isLoading /\ loadingPromise # 0

\* fastApiService.ts:83-94, the catch block of fetchFreshData.
FastCatchResult == IF cache # NoData THEN cache ELSE getFallbackData

\* An offline branch that serves the cache entry like the catch block does.
FastOfflineServesCache == IF cache # NoData THEN cache ELSE getFallbackData

\* fastApiService.ts:56-59, the value returned when the health check failed.
FastOfflineResult == getFallbackData

\* getCrisisData(forceRefresh) up to its first await: cache hit, join of the
\* production in flight, or start of fetchFreshData (which runs synchronously
\* up to the fetch of /health inside checkServerHealth).
FastGetCrisisData(force) ==
  /\ sut = "fast"
  /\ nIssued < MaxCalls
  /\ nIssued' = nIssued + 1
  /\ LET c == nIssued + 1 IN
     IF FastCacheHit(force)
     THEN /\ calls' = [calls EXCEPT ![c] = ReturnHit(force)]
          /\ UNCHANGED <<isLoading, loadingPromise>>
     ELSE IF FastAlreadyLoading
     THEN /\ calls' = [calls EXCEPT ![c] =
                        [Issued(force) EXCEPT !.st = "joined", !.path = "join",
                                              !.prod = loadingPromise]]
          /\ UNCHANGED <<isLoading, loadingPromise>>
     ELSE /\ isLoading' = TRUE
          /\ loadingPromise' = c
          /\ calls' = [calls EXCEPT ![c] =
                        [Issued(force) EXCEPT !.st = "health", !.path = "start",
                                              !.prod = c, !.health = 1]]
  /\ UNCHANGED <<sut, upd, now, ticks, cache, lastFetch>>
  /\ UNCHANGED <<serverVars, pureVars, moreVars>>

\* fetchFreshData resumes after `await this.checkServerHealth()`.
\* checkServerHealth never throws: a failed or aborted fetch gives false.
FastHealthReturns(p, ok) ==
  /\ sut = "fast"
  /\ calls[p].st = "health"
  /\ calls' = [calls EXCEPT ![p] =
        IF ok THEN [calls[p] EXCEPT !.st = "post", !.post = calls[p].post + 1]
        ELSE Settled(p, "resolved", FastOfflineResult,
                     HowOfCatch(FastOfflineResult), "health")]
  /\ UNCHANGED <<sut, upd, now, ticks, cache, lastFetch, isLoading, loadingPromise, nIssued>>
  /\ UNCHANGED <<serverVars, pureVars, moreVars>>

\* fetchFreshData resumes after `await fetch(.../analyze-crisis)`: the fetch
\* threw, or answered with !response.ok, or answered ok.
FastPostReturns(p, outcome) ==
  /\ sut = "fast"
  /\ calls[p].st = "post"
  /\ calls' = [calls EXCEPT ![p] =
        IF outcome = "ok" THEN [calls[p] EXCEPT !.st = "body"]
        ELSE Settled(p, "resolved", FastCatchResult,
                     HowOfCatch(FastCatchResult), outcome)]
  /\ UNCHANGED <<sut, upd, now, ticks, cache, lastFetch, isLoading, loadingPromise, nIssued>>
  /\ UNCHANGED <<serverVars, pureVars, moreVars>>

\* fetchFreshData resumes after `await response.json()`: the body parsed and
\* the result is cached, or reading it threw.
FastBodyReturns(p, outcome) ==
  /\ sut = "fast"
  /\ calls[p].st = "body"
  /\ IF outcome = "json"
     THEN /\ cache' = Fresh(p)
          /\ lastFetch' = now
          /\ calls' = [calls EXCEPT ![p] =
                Settled(p, "resolved", Fresh(p), "fresh", "none")]
     ELSE /\ calls' = [calls EXCEPT ![p] =
                Settled(p, "resolved", FastCatchResult,
                        HowOfCatch(FastCatchResult), outcome)]
          /\ UNCHANGED <<cache, lastFetch>>
  /\ UNCHANGED <<sut, upd, now, ticks, isLoading, loadingPromise, nIssued>>
  /\ UNCHANGED <<serverVars, pureVars, moreVars>>

\* The starter resumes after `await this.loadingPromise`: the finally block
\* clears the registry and the call settles.
FastFinally(c) ==
  /\ sut = "fast"
  /\ calls[c].st \in {"resolved", "rejected"}
  /\ calls[c].path = "start"
  /\ isLoading' = FALSE
  /\ loadingPromise' = 0
  /\ calls' = [calls EXCEPT ![c].st = IF calls[c].res = Rejected
                                      THEN "failed" ELSE "done"]
  /\ UNCHANGED <<sut, upd, now, ticks, cache, lastFetch, nIssued>>
  /\ UNCHANGED <<serverVars, pureVars, moreVars>>

\* A caller that was handed loadingPromise settles with that promise's value.
FastJoinerSettles(c) ==
  /\ sut = "fast"
  /\ calls[c].st = "joined"
  /\ LET p == calls[c].prod IN
     /\ calls[p].st \in {"resolved", "rejected", "done", "failed"}
     /\ calls' = [calls EXCEPT ![c] =
           [calls[c] EXCEPT !.st = IF calls[p].res = Rejected
                                   THEN "failed" ELSE "done",
                            !.res = calls[p].res, !.how = calls[p].how,
                            !.fail = calls[p].fail, !.resAge = calls[p].resAge]]
  /\ UNCHANGED <<sut, upd, now, ticks, cache, lastFetch, isLoading, loadingPromise, nIssued>>
  /\ UNCHANGED <<serverVars, pureVars, moreVars>>

\* forceRefresh(): clears the cache.
FastForceRefresh ==
  /\ sut = "fast"
  /\ cache' = NoData
  /\ lastFetch' = Null
  /\ calls' = Invalidated
  /\ UNCHANGED <<sut, upd, now, ticks, isLoading, loadingPromise, nIssued>>
  /\ UNCHANGED <<serverVars, pureVars, moreVars>>

\* ========================================================== SecureApiService
\* The cache check with `<=` in place of `<`.
SecureCacheHitInclusive(force) ==
  /\ ~force
  /\ cache # NoData
  /\ lastFetch # Null
  /\ CacheAge <= SECURE_CACHE_DURATION

\* part_013:48-50, the cache check of getCrisisData.
SecureCacheHit(force) ==
  /\ ~force
  /\ cache # NoData
  /\ lastFetch # Null
  /\ CacheAge < SECURE_CACHE_DURATION

\* part_013:97-109, the catch block of getCrisisData.
SecureCatchResult == IF cache # NoData THEN cache ELSE getFallbackData

\* part_013:62-66, the value returned when the health check failed.
SecureOfflineResult == getFallbackData

\* getCrisisData(forceRefresh) up to its first await: cache hit, or the try
\* block runs up to the fetch of /health inside checkServerHealth.
SecureGetCrisisData(force) ==
  /\ sut = "secure"
  /\ nIssued < MaxCalls
  /\ nIssued' = nIssued + 1
  /\ LET c == nIssued + 1 IN
     calls' = [calls EXCEPT ![c] =
       IF SecureCacheHit(force) THEN ReturnHit(force)
       ELSE [Issued(force) EXCEPT !.st = "health", !.path = "start",
                                  !.prod = c, !.health = 1]]
  /\ UNCHANGED <<sut, upd, now, ticks, cache, lastFetch, isLoading, loadingPromise>>
  /\ UNCHANGED <<serverVars, pureVars, moreVars>>

\* getCrisisData resumes after `await this.checkServerHealth()`.
SecureHealthReturns(c, ok) ==
  /\ sut = "secure"
  /\ calls[c].st = "health"
  /\ calls' = [calls EXCEPT ![c] =
        IF ok THEN [calls[c] EXCEPT !.st = "post", !.post = calls[c].post + 1]
        ELSE Settled(c, "done", SecureOfflineResult,
                     HowOfCatch(SecureOfflineResult), "health")]
  /\ UNCHANGED <<sut, upd, now, ticks, cache, lastFetch, isLoading, loadingPromise, nIssued>>
  /\ UNCHANGED <<serverVars, pureVars, moreVars>>

\* getCrisisData resumes after `await fetch(.../analyze-crisis)`.
SecurePostReturns(c, outcome) ==
  /\ sut = "secure"
  /\ calls[c].st = "post"
  /\ calls' = [calls EXCEPT ![c] =
        IF outcome = "ok" THEN [calls[c] EXCEPT !.st = "body"]
        ELSE Settled(c, "done", SecureCatchResult,
                     HowOfCatch(SecureCatchResult), outcome)]
  /\ UNCHANGED <<sut, upd, now, ticks, cache, lastFetch, isLoading, loadingPromise, nIssued>>
  /\ UNCHANGED <<serverVars, pureVars, moreVars>>

\* getCrisisData resumes after `await response.json()`.
SecureBodyReturns(c, outcome) ==
  /\ sut = "secure"
  /\ calls[c].st = "body"
  /\ IF outcome = "json"
     THEN /\ cache' = Fresh(c)
          /\ lastFetch' = now
          /\ calls' = [calls EXCEPT ![c] =
                Settled(c, "done", Fresh(c), "fresh", "none")]
     ELSE /\ calls' = [calls EXCEPT ![c] =
                Settled(c, "done", SecureCatchResult,
                        HowOfCatch(SecureCatchResult), outcome)]
          /\ UNCHANGED <<cache, lastFetch>>
  /\ UNCHANGED <<sut, upd, now, ticks, isLoading, loadingPromise, nIssued>>
  /\ UNCHANGED <<serverVars, pureVars, moreVars>>

\* clearCache().
SecureClearCache ==
  /\ sut = "secure"
  /\ cache' = NoData
  /\ lastFetch' = Null
  /\ calls' = Invalidated
  /\ UNCHANGED <<sut, upd, now, ticks, isLoading, loadingPromise, nIssued>>
  /\ UNCHANGED <<serverVars, pureVars, moreVars>>

\* ========================================================== GPTCrisisService
\* gptCrisisService.ts:64-65, the cache check of getAllCrisisData.
GptCacheHit(force) ==
  /\ ~force
  /\ cache # NoData
  /\ lastFetch # Null
  /\ CacheAge < GPT_CACHE_DURATION

\* A catch block that rethrows instead of returning data.
GptCatchRethrows == Rejected

\* gptCrisisService.ts:169-179, the catch block of getAllCrisisData.
GptCatchResult == IF cache # NoData THEN cache ELSE getFallbackData

\* What replicate.run and the parse of its text can give:
\*   "throw"     replicate.run rejected;
\*   "parseFail" JSON.parse threw, parsedData = this.getFallbackData();
\*   "events"    an object whose events is an array with entries;
\*   "noEvents"  an object without events, or with none (processEvents([]));
\*   "badShape"  null, or events that is no array: a TypeError in the try block.
GptOutcomes == {"throw", "parseFail", "events", "noEvents", "badShape"}

\* getAllCrisisData(forceRefresh) up to its first await: cache hit, or the
\* try block runs up to replicate.run.
GptGetAllCrisisData(force) ==
  /\ sut = "gpt"
  /\ nIssued < MaxCalls
  /\ nIssued' = nIssued + 1
  /\ LET c == nIssued + 1 IN
     calls' = [calls EXCEPT ![c] =
       IF GptCacheHit(force) THEN ReturnHit(force)
       ELSE [Issued(force) EXCEPT !.st = "run", !.path = "start",
                                  !.prod = c, !.post = 1]]
  /\ UNCHANGED <<sut, upd, now, ticks, cache, lastFetch, isLoading, loadingPromise>>
  /\ UNCHANGED <<serverVars, pureVars, moreVars>>

\* getAllCrisisData resumes after `await replicate.run(...)`.
GptRunReturns(c, outcome) ==
  /\ sut = "gpt"
  /\ calls[c].st = "run"
  /\ IF outcome \in {"throw", "badShape"}
     THEN /\ calls' = [calls EXCEPT ![c] =
                Settled(c, "done", GptCatchResult,
                        HowOfCatch(GptCatchResult), outcome)]
          /\ UNCHANGED <<cache, lastFetch>>
     ELSE LET data == IF outcome = "parseFail" THEN ParsedFallback(c)
                      ELSE Fresh(c) IN
          /\ cache' = data
          /\ lastFetch' = now
          /\ calls' = [calls EXCEPT ![c] =
                Settled(c, "done", data, "fresh",
                        IF outcome = "parseFail" THEN outcome ELSE "none")]
  /\ upd' = IF outcome = "noEvents" THEN [upd EXCEPT !.empty = @ \cup {c}] ELSE upd
  /\ UNCHANGED <<sut, now, ticks, isLoading, loadingPromise, nIssued>>
  /\ UNCHANGED <<serverVars, pureVars, moreVars>>

\* clearCache().
GptClearCache ==
  /\ sut = "gpt"
  /\ cache' = NoData
  /\ lastFetch' = Null
  /\ calls' = Invalidated
  /\ UNCHANGED <<sut, upd, now, ticks, isLoading, loadingPromise, nIssued>>
  /\ UNCHANGED <<serverVars, pureVars, moreVars>>

\* gptCrisisService.ts:182-225, updateSpecificEvent(eventId). A call is
\* numbered like the other calls of the instance; its record holds the cache
\* object its event was found in and what it returned: "null", "event" (the
\* event as it was found), "updated" (the processed answer, now in the
\* cache), "undefined" (this.cache.events[-1]).
NoUpdate == [st |-> "new", obj |-> NoData, res |-> "none"]

\* No updateSpecificEvent call yet, no cache object edited, no cached object
\* with an empty events list.
NoUpd == [calls |-> [c \in CallIds |-> NoUpdate], mutated |-> {}, empty |-> {}]

\* this.cache.events has no entry.
GptCacheEmpty == cache.src = "backend" /\ cache.id \in upd.empty

\* updateSpecificEvent(eventId) up to its await: null without a cache or when
\* no event of the cache has this id (inCache), else replicate.run is awaited.
GptUpdateSpecificEvent(inCache) ==
  /\ sut = "gpt"
  /\ nIssued < MaxCalls
  /\ nIssued' = nIssued + 1
  /\ LET c == nIssued + 1 IN
     upd' = [upd EXCEPT !.calls[c] =
       IF cache = NoData \/ GptCacheEmpty \/ ~inCache
       THEN [st |-> "done", obj |-> NoData, res |-> "null"]
       ELSE [st |-> "run", obj |-> cache, res |-> "none"]]
  /\ UNCHANGED <<sut, now, ticks, cache, lastFetch, isLoading, loadingPromise, calls>>
  /\ UNCHANGED <<serverVars, pureVars, moreVars>>

UpdateOutcomes == {"throw", "parseFail", "parsed"}

\* updateSpecificEvent resumes after `await replicate.run(...)`. A rejection,
\* a JSON.parse error and the TypeError of this.cache.events when the cache
\* was cleared meanwhile all end in the catch block, which returns the event
\* found before the await. Otherwise findIndex looks the id up in the cache
\* of now: it is there when the cache is the untouched object the event was
\* found in, it may be there (found) in another or an edited one, and the
\* entry is replaced in place; lastFetch and the counts stay.
GptUpdateReturns(u, outcome, found) ==
  /\ sut = "gpt"
  /\ upd.calls[u].st = "run"
  /\ LET same == cache = upd.calls[u].obj /\ cache \notin upd.mutated
         eventIndex == same \/ (found /\ ~GptCacheEmpty) IN
     upd' = IF outcome # "parsed" \/ cache = NoData
            THEN [upd EXCEPT !.calls[u].st = "done", !.calls[u].res = "event"]
            ELSE IF eventIndex
            THEN [upd EXCEPT !.calls[u].st = "done", !.calls[u].res = "updated",
                             !.mutated = @ \cup {cache}]
            ELSE [upd EXCEPT !.calls[u].st = "done", !.calls[u].res = "undefined"]
  /\ UNCHANGED <<sut, now, ticks, cache, lastFetch, isLoading, loadingPromise,
                 nIssued, calls>>
  /\ UNCHANGED <<serverVars, pureVars, moreVars>>

\* ===================================================== ProfitPredictorService
\* newsService.ts:344-346, the cache check of analyzeProfitOpportunities
\* (cache is the map entry of key 'profit-opportunities', lastFetch its
\* timestamp).
ProfitCacheHit ==
  /\ cache # NoData
  /\ now - lastFetch < PROFIT_CACHE_DURATION

\* newsService.ts:393-396, the catch block: getFallbackOpportunities().
ProfitCatchResult == getFallbackData

\* analyzeProfitOpportunities(crisisEvents) up to its first await.
ProfitAnalyze ==
  /\ sut = "profit"
  /\ nIssued < MaxCalls
  /\ nIssued' = nIssued + 1
  /\ LET c == nIssued + 1 IN
     calls' = [calls EXCEPT ![c] =
       IF ProfitCacheHit THEN ReturnHit(FALSE)
       ELSE [Issued(FALSE) EXCEPT !.st = "post", !.path = "start",
                                  !.prod = c, !.post = 1]]
  /\ UNCHANGED <<sut, upd, now, ticks, cache, lastFetch, isLoading, loadingPromise>>
  /\ UNCHANGED <<serverVars, pureVars, moreVars>>

\* analyzeProfitOpportunities resumes after `await fetch(.../analyze-financial)`.
ProfitFetchReturns(c, outcome) ==
  /\ sut = "profit"
  /\ calls[c].st = "post"
  /\ calls' = [calls EXCEPT ![c] =
        IF outcome = "ok" THEN [calls[c] EXCEPT !.st = "body"]
        ELSE Settled(c, "done", ProfitCatchResult,
                     HowOfCatch(ProfitCatchResult), outcome)]
  /\ UNCHANGED <<sut, upd, now, ticks, cache, lastFetch, isLoading, loadingPromise, nIssued>>
  /\ UNCHANGED <<serverVars, pureVars, moreVars>>

\* analyzeProfitOpportunities resumes after `await response.json()`.
ProfitBodyReturns(c, outcome) ==
  /\ sut = "profit"
  /\ calls[c].st = "body"
  /\ IF outcome = "json"
     THEN /\ cache' = Fresh(c)
          /\ lastFetch' = now
          /\ calls' = [calls EXCEPT ![c] =
                Settled(c, "done", Fresh(c), "fresh", "none")]
     ELSE /\ calls' = [calls EXCEPT ![c] =
                Settled(c, "done", ProfitCatchResult,
                        HowOfCatch(ProfitCatchResult), outcome)]
          /\ UNCHANGED <<cache, lastFetch>>
  /\ UNCHANGED <<sut, upd, now, ticks, isLoading, loadingPromise, nIssued>>
  /\ UNCHANGED <<serverVars, pureVars, moreVars>>


\* ==================================================================== server
ReqIds == 1..MaxReqs

\* riskScore values the model may give an event.
RiskScores == {50, 70}

\* The events lists of the model's JSON, each event taken as its riskScore
\* (the only field the counts of the response read).
EventLists == UNION {[1..n -> RiskScores] : n \in 0..MaxEvents}

\* server/index.js:167-210, getFallbackData(): an object with the single key
\* events, holding one event (riskScore 92).
serverFallbackEvents == <<92>>
serverFallbackKeys == {"events"}

\* server/index.js:119, parsedData.events.filter(e => e.riskScore >= 70).length
HighRisk(events) == Cardinality({i \in 1..Len(events) : events[i] >= 70})

\* A response: its status, the keys of its JSON body, and the values of the
\* keys the properties read. nEvents is the length of body.events,
\* fallbackEvents the length of body.fallback.events.
NoResp == [status |-> 0, error |-> "", keys |-> {}, nEvents |-> 0,
           totalEvents |-> 0, highRiskEvents |-> 0,
           fallbackKeys |-> {}, fallbackEvents |-> 0, analysisType |-> ""]

NoReq == [st |-> "new", ep |-> "none", body |-> "object",
          crisisData |-> "absent", analysisType |-> "absent", overlap |-> 0, modelCalls |-> 0,
          prompt |-> "none", exc |-> "", sent |-> 0, resp |-> NoResp]

\* The values of the credential: unset, or one of two keys.
TokenValues == {"", "r8_A", "r8_B"}

\* The messages of the exceptions replicate.run may reject with; one of them
\* quotes a credential.
ExceptionMessages == {"Request failed with status 401: r8_A", "socket hang up"}

\* The message of the TypeError the handler's own code raises.
TypeErrorMessage == "Cannot read properties of undefined"

\* The message of the TypeError of `const { crisisData, analysisType } =
\* req.body` (server/index.js:217) when req.body is undefined.
DestructureErrorMessage ==
  "Cannot destructure property 'crisisData' of 'req.body' as it is undefined."

\* The message of the exception a rejected import('replicate') raises.
ImportErrorMessage == "Cannot find package 'replicate'"

\* res.json(body), res.status(n).json(body): the handler sends resp and ends.
Answer(req, resp) == [req EXCEPT !.st = "done", !.sent = @ + 1, !.resp = resp]

\* res.status(500).json({ error: 'Server configuration error' })
ConfigErrorResp ==
  [NoResp EXCEPT !.status = 500, !.error = "Server configuration error",
                 !.keys = {"error"}]

\* The catch block of /api/analyze-crisis answering with the message of the
\* exception as its error text.
CrisisCatchRespLeaks(msg) ==
  [NoResp EXCEPT !.status = 500, !.error = msg,
                 !.keys = {"error", "fallback"},
                 !.fallbackKeys = serverFallbackKeys,
                 !.fallbackEvents = Len(serverFallbackEvents)]

\* server/index.js:124-132, the catch block of /api/analyze-crisis: the
\* exception (message msg) goes to console.error, the body is fixed.
CrisisCatchResp(msg) ==
  [NoResp EXCEPT !.status = 500, !.error = "Analysis temporarily unavailable",
                 !.keys = {"error", "fallback"},
                 !.fallbackKeys = serverFallbackKeys,
                 !.fallbackEvents = Len(serverFallbackEvents)]

\* server/index.js:114-122, the success body built from parsedData.events
\* (events is <<>> when parsedData has no events key); processEvents maps
\* the list event by event, so body.events has its length.
CrisisOkResp(events) ==
  [NoResp EXCEPT !.status = 200,
                 !.keys = {"events", "lastUpdated", "totalEvents", "highRiskEvents"},
                 !.nEvents = Len(events),
                 !.totalEvents = Len(events),
                 !.highRiskEvents = HighRisk(events)]

\* The crisis requests whose model call is in flight.
CrisisInFlight == {q \in ReqIds : reqs[q].ep = "crisis" /\ reqs[q].st = "model"}

\* POST /api/analyze-crisis up to `await import('replicate')`: without the
\* credential the handler answers at once, else it awaits the module.
CrisisArrive ==
  /\ sut = "server"
  /\ nReqs < MaxReqs
  /\ nReqs' = nReqs + 1
  /\ LET r == nReqs + 1
         arrived == [NoReq EXCEPT !.ep = "crisis",
                       !.overlap = IF CrisisInFlight = {} THEN 0
                                   ELSE CHOOSE q \in CrisisInFlight : TRUE] IN
     reqs' = [reqs EXCEPT ![r] =
       IF token = "" THEN Answer(arrived, ConfigErrorResp)
       ELSE [arrived EXCEPT !.st = "import"]]
  /\ UNCHANGED token
  /\ UNCHANGED <<clientVars, pureVars, moreVars>>

\* The crisis handler resumes after `await import('replicate')`: it builds
\* the prompt and issues the model call, or the import rejected and the
\* catch block answers.
CrisisImportReturns(r, ok) ==
  /\ sut = "server"
  /\ reqs[r].ep = "crisis"
  /\ reqs[r].st = "import"
  /\ reqs' = [reqs EXCEPT ![r] =
       IF ok THEN [reqs[r] EXCEPT !.st = "model", !.modelCalls = 1,
                                  !.prompt = "crisis"]
       ELSE Answer([reqs[r] EXCEPT !.exc = ImportErrorMessage],
                   CrisisCatchResp(ImportErrorMessage))]
  /\ UNCHANGED <<token, nReqs>>
  /\ UNCHANGED <<clientVars, pureVars, moreVars>>

\* What replicate.run and the parse of its text can give the crisis handler:
\*   "throw"     the model call rejected;
\*   "parseFail" JSON.parse threw, parsedData = getFallbackData();
\*   "events"    an object whose events is an array of objects;
\*   "noEvents"  an object without events;
\*   "badShape"  null, or events that is no array of objects: a TypeError.
CrisisOutcomes == {"throw", "parseFail", "events", "noEvents", "badShape"}

\* The message of the exception an outcome raises: msg for a rejected model
\* call, the TypeError's for a bad shape, "" when nothing is thrown.
Thrown(outcome, msg) ==
  CASE outcome = "throw" -> msg
    [] outcome = "badShape" -> TypeErrorMessage
    [] OTHER -> ""

\* A crisis handler whose catch block runs the model call a second time
\* before it gives up.
CrisisSettleRetrying(req, outcome, events, msg) ==
  IF outcome = "throw" /\ req.modelCalls < 2
  THEN [req EXCEPT !.modelCalls = @ + 1]
  ELSE Answer([req EXCEPT !.exc = Thrown(outcome, msg)],
         CASE outcome \in {"throw", "badShape"} -> CrisisCatchResp(Thrown(outcome, msg))
           [] outcome = "parseFail" -> CrisisOkResp(serverFallbackEvents)
           [] outcome = "noEvents" -> CrisisOkResp(<<>>)
           [] OTHER -> CrisisOkResp(events))

\* server/index.js:98-132: what the crisis handler does with the outcome of
\* its model call: one response, from the try block or from the catch block.
CrisisSettle(req, outcome, events, msg) ==
  Answer([req EXCEPT !.exc = Thrown(outcome, msg)],
    CASE outcome \in {"throw", "badShape"} -> CrisisCatchResp(Thrown(outcome, msg))
      [] outcome = "parseFail" -> CrisisOkResp(serverFallbackEvents)
      [] outcome = "noEvents" -> CrisisOkResp(<<>>)
      [] OTHER -> CrisisOkResp(events))

\* The handler resumes after `await replicate.run(...)` and answers.
CrisisModelReturns(r, outcome, events, msg) ==
  /\ sut = "server"
  /\ reqs[r].ep = "crisis"
  /\ reqs[r].st = "model"
  /\ outcome # "events" => events = <<>>
  /\ reqs' = [reqs EXCEPT ![r] = CrisisSettle(reqs[r], outcome, events, msg)]
  /\ UNCHANGED <<token, nReqs>>
  /\ UNCHANGED <<clientVars, pureVars, moreVars>>

\* ------------------------------------------------- POST /api/analyze-financial
\* The request bodies: crisisData absent, an object without events, or an
\* object with an events list; analysisType absent, one of the two supported
\* kinds, or another string.
\* req.body itself is an object, or undefined: express.json() (index.js:29)
\* leaves it undefined for a request without a JSON body in Express 5 and
\* sets {} in Express 4, and the sources pin no version.
RequestBodies == {"object", "undefined"}
CrisisDataShapes == {"absent", "noEvents", "events"}
AnalysisTypes == {"absent", "profit-opportunities", "trading-signals", "portfolio"}

\* server/index.js:219, `!crisisData || !analysisType`.
MissingParameters(crisisData, analysisType) ==
  crisisData = "absent" \/ analysisType = "absent"

\* server/index.js:233-297: the prompt built for analysisType; "" when it is
\* neither of the two kinds the handler knows.
FinancialPrompt(analysisType) ==
  IF analysisType = "profit-opportunities" THEN "profit-opportunities"
  ELSE IF analysisType = "trading-signals" THEN "trading-signals"
  ELSE ""

\* server/index.js:236 and 270: building the prompt reads
\* crisisData.events.slice, a TypeError when crisisData has no events.
PromptThrows(crisisData, analysisType) ==
  /\ analysisType \in {"profit-opportunities", "trading-signals"}
  /\ crisisData = "noEvents"

\* server/index.js:320-327, the catch block of /api/analyze-financial: the
\* exception (message msg) goes to console.error, the body is fixed.
FinancialCatchResp(msg) ==
  [NoResp EXCEPT !.status = 500,
                 !.error = "Financial analysis temporarily unavailable",
                 !.keys = {"error", "opportunities", "signals"}]

\* res.status(400).json({ error: 'Missing required parameters' })
MissingParametersResp ==
  [NoResp EXCEPT !.status = 400, !.error = "Missing required parameters",
                 !.keys = {"error"}]

\* POST /api/analyze-financial up to `await import('replicate')`. The
\* destructuring of req.body is the first statement of the try block: with
\* req.body undefined it throws and the catch block answers. A body that is
\* undefined has no fields.
FinancialArrive(body, crisisData, analysisType) ==
  /\ sut = "server"
  /\ nReqs < MaxReqs
  /\ body = "undefined" => crisisData = "absent" /\ analysisType = "absent"
  /\ nReqs' = nReqs + 1
  /\ LET r == nReqs + 1
         arrived == [NoReq EXCEPT !.ep = "financial", !.body = body,
                                  !.crisisData = crisisData,
                                  !.analysisType = analysisType] IN
     reqs' = [reqs EXCEPT ![r] =
       IF body = "undefined"
       THEN Answer([arrived EXCEPT !.exc = DestructureErrorMessage],
                   FinancialCatchResp(DestructureErrorMessage))
       ELSE IF MissingParameters(crisisData, analysisType)
       THEN Answer(arrived, MissingParametersResp)
       ELSE IF token = ""
       THEN Answer(arrived, ConfigErrorResp)
       ELSE [arrived EXCEPT !.st = "import"]]
  /\ UNCHANGED token
  /\ UNCHANGED <<clientVars, pureVars, moreVars>>

\* The financial handler resumes after `await import('replicate')`: it
\* builds the prompt (a TypeError when crisisData has no events) and issues
\* the model call, or the import rejected; the catch block answers for both.
FinancialImportReturns(r, ok) ==
  /\ sut = "server"
  /\ reqs[r].ep = "financial"
  /\ reqs[r].st = "import"
  /\ reqs' = [reqs EXCEPT ![r] =
       IF ~ok
       THEN Answer([reqs[r] EXCEPT !.exc = ImportErrorMessage],
                   FinancialCatchResp(ImportErrorMessage))
       ELSE IF PromptThrows(reqs[r].crisisData, reqs[r].analysisType)
       THEN Answer([reqs[r] EXCEPT !.exc = TypeErrorMessage],
                   FinancialCatchResp(TypeErrorMessage))
       ELSE [reqs[r] EXCEPT !.st = "model", !.modelCalls = 1,
                            !.prompt = FinancialPrompt(reqs[r].analysisType)]]
  /\ UNCHANGED <<token, nReqs>>
  /\ UNCHANGED <<clientVars, pureVars, moreVars>>

\* The key sets of the object the model's text may parse to; the empty set
\* also stands for a parsed null, whose spread adds nothing.
ParsedKeySets == {{}, {"opportunities"}, {"signals"},
                  {"opportunities", "lastUpdated", "analysisType"}}

\* server/index.js:303-318: the success body {...parsedData, lastUpdated,
\* analysisType}; after a parse error parsedData is
\* { opportunities: [], signals: [] }.
FinancialOkResp(parsedKeys, analysisType) ==
  [NoResp EXCEPT !.status = 200,
                 !.keys = parsedKeys \cup {"lastUpdated", "analysisType"},
                 !.analysisType = analysisType]

\* The handler resumes after `await replicate.run(...)` and answers.
FinancialModelReturns(r, outcome, parsedKeys, msg) ==
  /\ sut = "server"
  /\ reqs[r].ep = "financial"
  /\ reqs[r].st = "model"
  /\ outcome # "parsed" => parsedKeys = {}
  /\ reqs' = [reqs EXCEPT ![r] =
       Answer([reqs[r] EXCEPT !.exc = Thrown(outcome, msg)],
         CASE outcome = "throw" -> FinancialCatchResp(msg)
           [] outcome = "parseFail" ->
                FinancialOkResp({"opportunities", "signals"}, reqs[r].analysisType)
           [] OTHER -> FinancialOkResp(parsedKeys, reqs[r].analysisType))]
  /\ UNCHANGED <<token, nReqs>>
  /\ UNCHANGED <<clientVars, pureVars, moreVars>>

\* ======================================================== consent-gated pages
\* part_012:4-54, FINANCIAL_DISCLAIMERS: id, userMustAcknowledge, category.
FINANCIAL_DISCLAIMERS ==
  {[id |-> "not-financial-advice", userMustAcknowledge |-> TRUE, category |-> "general"],
   [id |-> "high-risk-warning", userMustAcknowledge |-> TRUE, category |-> "trading"],
   [id |-> "ai-predictions-warning", userMustAcknowledge |-> TRUE, category |-> "predictions"],
   [id |-> "crisis-data-warning", userMustAcknowledge |-> FALSE, category |-> "general"],
   [id |-> "volatility-warning", userMustAcknowledge |-> TRUE, category |-> "risk"]}

DisclaimerIds == {d.id : d \in FINANCIAL_DISCLAIMERS}

\* part_012:97-102, getRequiredDisclaimers(category), as the set of ids. The
\* parameter is optional: "" stands for a call without category (or with an
\* empty one), which selects every disclaimer the user must acknowledge.
getRequiredDisclaimers(category) ==
  {d.id : d \in {x \in FINANCIAL_DISCLAIMERS :
                   x.userMustAcknowledge
                   /\ (category = "" \/ x.category = category)}}

\* The clock of the page counts seconds (30 days of milliseconds exceed the
\* 32-bit integers of the model checker).
HOUR == 60 * 60
DAY == 24 * HOUR

\* part_012:116, the 30 of `setDate(getDate() - 30)`: 30 calendar days of
\* local time, which are 30 * 24 h wherever the UTC offset does not change.
THIRTY_DAYS == 30 * DAY

\* The local time zone of the browser: its UTC offset changes by shift
\* seconds at the instant transition. No daylight saving (shift 0), the end
\* of daylight saving (the offset falls by one hour) and its start (the
\* offset rises by one hour); the page is first rendered at instant 0,
\* fifteen days before the transition.
TimeZones == {[transition |-> 15 * DAY, shift |-> s] : s \in {0, 0 - HOUR, HOUR}}

\* part_012:115-116, `new Date()` at instant t followed by
\* setDate(getDate() - 30): the instant whose local date is 30 days before
\* that of t and whose local time of day is the same. u1 reads that local
\* time with the UTC offset in force at t, u0 with the offset before the
\* transition; a local time that the transition repeats or skips is read
\* with the offset before the transition (ECMAScript, LocalTime to UTC).
thirtyDaysAgo(zone, t) ==
  LET u1 == t - THIRTY_DAYS
      u0 == u1 + zone.shift IN
  IF t < zone.transition THEN u1
  ELSE IF u0 >= zone.transition /\ u1 >= zone.transition THEN u1
  ELSE u0

\* this.userConsents.get(disclaimerId) === undefined.
NoConsent == [acknowledged |-> FALSE, timestamp |-> Null]

\* part_012:110-119, hasUserConsented(disclaimerId) at instant t in the time
\* zone zone: consents maps a disclaimer id to its UserConsent (NoConsent
\* without one), and a consent counts while it is acknowledged and
\* consent.timestamp > thirtyDaysAgo.
hasUserConsented(zone, consents, t, disclaimerId) ==
  /\ consents[disclaimerId] # NoConsent
  /\ consents[disclaimerId].acknowledged
  /\ consents[disclaimerId].timestamp > thirtyDaysAgo(zone, t)

\* part_012:132-149, checkRequiredConsents(feature).hasAllConsents at time t.
HasAllConsents(zone, consents, t, category) ==
  \A d \in getRequiredDisclaimers(category) :
     hasUserConsented(zone, consents, t, d)

\* String.prototype.includes.
Includes(s, sub) ==
  \E i \in 1..(Len(s) - Len(sub) + 1) : SubSeq(s, i, i + Len(sub) - 1) = sub

\* The pages and the feature each of them loads.
PageFeatures == {"tradingSignals", "profitPredictions"}

\* useFinancialFeatures.ts:28-34, the consent category of a feature name.
ConsentCategory(featureName) ==
  IF Includes(featureName, "trading") \/ Includes(featureName, "signal")
  THEN "trading"
  ELSE IF Includes(featureName, "profit") \/ Includes(featureName, "predict")
  THEN "predictions"
  ELSE "general"

\* The disclaimers whose consent is recorded or revoked in a behaviour: the
\* required one of each page, and one no page requires.
ConsentInputs == {"high-risk-warning", "ai-predictions-warning", "not-financial-advice"}

\* A UserConsent as JSON.parse gives it back from localStorage: recorded at
\* instant 0, its acknowledged flag true (what recordConsent writes) or false.
StoredConsentValues ==
  {NoConsent} \cup {[acknowledged |-> a, timestamp |-> 0] : a \in BOOLEAN}

\* LegalService.userConsents after loadStoredConsents (part_012:71-86).
StoredConsents ==
  {cs \in [DisclaimerIds -> StoredConsentValues] :
     \A d \in DisclaimerIds \ ConsentInputs : cs[d] = NoConsent}

\* useFinancialFeatures.ts:11-15, the initial featuresEnabled.
NoFeatures ==
  [tradingSignals |-> FALSE, profitPredictions |-> FALSE, portfolioAnalysis |-> FALSE]

\* A page just rendered for the first time: its state hooks and those of
\* useFinancialFeatures at their initial values, no effect run yet.
\*   stage  position of checkFeatureAccess / loadFeature;
\*   hook   position of checkInitialConsents, the mount effect of the hook.
PageInits ==
  {[stage |-> "mounted", hook |-> "new", feature |-> f, consents |-> cs,
    zone |-> z, now |-> 0, ticks |-> 0,
    tradingConsent |-> FALSE, predictionsConsent |-> FALSE,
    isFeatureReady |-> FALSE, showDisclaimerModal |-> FALSE,
    featuresEnabled |-> NoFeatures, error |-> "", hasAllConsents |-> FALSE]
     : f \in PageFeatures, cs \in StoredConsents, z \in TimeZones}

\* useFinancialFeatures.ts:107-127, the mount effect of the hook (declared
\* before the effect of the page, so it runs first): checkInitialConsents
\* runs up to `await legalService.checkRequiredConsents('trading')`, whose
\* body has run synchronously.
HookCheckInitialConsents ==
  /\ sut = "page"
  /\ page.hook = "new"
  /\ page' = [page EXCEPT !.hook = "trading",
                !.tradingConsent = HasAllConsents(page.zone, page.consents, page.now, "trading")]
  /\ UNCHANGED <<clientVars, serverVars, pureVars, rt>>

\* The effect of the page runs checkFeatureAccess: featuresEnabled is false
\* in the render the effect closes over, so loadFeature is called and runs up
\* to `await legalService.checkRequiredConsents(category)`.
PageCheckFeatureAccess ==
  /\ sut = "page"
  /\ page.stage = "mounted"
  /\ page.hook = "trading"
  /\ page' = [page EXCEPT !.stage = "consentCheck", !.error = "",
                !.hasAllConsents =
                   HasAllConsents(page.zone, page.consents, page.now,
                                  ConsentCategory(page.feature))]
  /\ UNCHANGED <<clientVars, serverVars, pureVars, rt>>

\* checkInitialConsents resumes after its first await (the first microtask
\* queued) and runs up to `await checkRequiredConsents('predictions')`.
HookAfterTradingCheck ==
  /\ sut = "page"
  /\ page.hook = "trading"
  /\ page.stage = "consentCheck"
  /\ page' = [page EXCEPT !.hook = "predictions",
                !.predictionsConsent =
                   HasAllConsents(page.zone, page.consents, page.now, "predictions")]
  /\ UNCHANGED <<clientVars, serverVars, pureVars, rt>>

\* loadFeature resumes after the consent check (the second microtask queued):
\* without consent it sets the error and returns (the promise resolves); with
\* consent it goes on to `await import('@/services/dataValidator')`.
LoadFeatureAfterConsentCheck ==
  /\ sut = "page"
  /\ page.stage = "consentCheck"
  /\ page.hook = "predictions"
  /\ page' = IF ~page.hasAllConsents
             THEN [page EXCEPT !.stage = "loadReturned",
                                !.error = "Consent required for " \o page.feature]
             ELSE [page EXCEPT !.stage = "import"]
  /\ UNCHANGED <<clientVars, serverVars, pureVars, rt>>

\* checkInitialConsents resumes after its second await: featuresEnabled is
\* set from the two answers (useFinancialFeatures.ts:113-120).
HookAfterPredictionsCheck ==
  /\ sut = "page"
  /\ page.hook = "predictions"
  /\ page.stage \in {"loadReturned", "import"}
  /\ page' = [page EXCEPT !.hook = "done",
                !.featuresEnabled =
                   [tradingSignals |-> page.tradingConsent,
                    profitPredictions |-> page.predictionsConsent,
                    portfolioAnalysis |-> page.tradingConsent]]
  /\ UNCHANGED <<clientVars, serverVars, pureVars, rt>>

\* What the dynamic import can give: the module, a rejection with an Error
\* (the browser's TypeError for a chunk that cannot be fetched), a rejection
\* with a value that is no Error.
ImportOutcomes ==
  {[ok |-> TRUE, isError |-> FALSE, message |-> ""],
   [ok |-> FALSE, isError |-> TRUE,
    message |-> "Failed to fetch dynamically imported module"],
   [ok |-> FALSE, isError |-> FALSE, message |-> ""]}

\* useFinancialFeatures.ts:82, the text the catch block of loadFeature sets.
LoadFeatureErrorText(err) ==
  IF err.isError THEN err.message ELSE "Failed to load feature"

\* loadFeature resumes after the dynamic import: the feature is enabled, or
\* the import failed and the catch block sets the error; either way the
\* promise of loadFeature resolves.
LoadFeatureAfterImport(outcome) ==
  /\ sut = "page"
  /\ page.stage = "import"
  /\ page.hook = "done"
  /\ page' = IF outcome.ok
             THEN [page EXCEPT !.stage = "loadReturned",
                                !.featuresEnabled[page.feature] = TRUE]
             ELSE [page EXCEPT !.stage = "loadReturned",
                                !.error = LoadFeatureErrorText(outcome)]
  /\ UNCHANGED <<clientVars, serverVars, pureVars, rt>>

\* checkFeatureAccess resumes after `await loadFeature(...)`, which never
\* rejects: setIsFeatureReady(true).
PageAfterLoadFeature ==
  /\ sut = "page"
  /\ page.stage = "loadReturned"
  /\ page.hook = "done"
  /\ page' = [page EXCEPT !.stage = "settled", !.isFeatureReady = TRUE]
  /\ UNCHANGED <<clientVars, serverVars, pureVars, rt>>

\* The ages at which a consent recorded at instant 0 is last valid and first
\* expired, in each of the TimeZones.
PageTickDeltas ==
  {THIRTY_DAYS + k * HOUR - e : k \in {0 - 1, 0, 1}, e \in {0, 1}}

\* The clock of the browser advances by one of the PageTickDeltas.
\* Like the methods of LegalService below, this may happen between any two
\* steps of the page.
PageTick ==
  /\ sut = "page"
  /\ page.stage # "idle"
  /\ page.ticks < MaxTicks
  /\ \E d \in PageTickDeltas :
       page' = [page EXCEPT !.now = @ + d, !.ticks = @ + 1]
  /\ UNCHANGED <<clientVars, serverVars, pureVars, rt>>

\* part_012:121-130, recordConsent(disclaimerId).
LegalRecordConsent(d) ==
  /\ sut = "page"
  /\ page.stage # "idle"
  /\ page' = [page EXCEPT !.consents[d] =
                              [acknowledged |-> TRUE, timestamp |-> page.now]]
  /\ UNCHANGED <<clientVars, serverVars, pureVars, rt>>

\* part_012:151-154, revokeConsent(disclaimerId).
LegalRevokeConsent(d) ==
  /\ sut = "page"
  /\ page.stage # "idle"
  /\ page' = [page EXCEPT !.consents[d] = NoConsent]
  /\ UNCHANGED <<clientVars, serverVars, pureVars, rt>>

\* part_012:156-159, clearAllConsents().
LegalClearAllConsents ==
  /\ sut = "page"
  /\ page.stage # "idle"
  /\ page' = [page EXCEPT !.consents = [d \in DisclaimerIds |-> NoConsent]]
  /\ UNCHANGED <<clientVars, serverVars, pureVars, rt>>

\* ========================================================= RealTimeDataManager
\* Subscriptions issued by onUpdate in one behaviour, at most.
MaxSubs == 2
\* Fetches the RealTimeDataManager awaits at one time, at most.
MaxPending == 2

\* The callback functions a subscriber may pass to onUpdate (function
\* identity is what indexOf compares).
Fns == {"f", "g"}
SubIds == 1..MaxSubs
\* The interval timers of startRealTimeUpdates, and the types of update.
IntervalTypes == {"news", "stock"}
UpdateTypes == IntervalTypes \cup {"analysis"}

\* newsService.ts:681-684, the fields of a fresh instance, with the history
\* the claims speak about: subs (the callback each onUpdate call captured),
\* unsubscribed (the subscriptions whose unsubscribe function was called),
\* live (interval timers set and not cleared), pending (the fetches awaited,
\* as a bag: where from and of which type) and last (the latest notifyUpdate:
\* where it came from, the subscriptions at its start, those whose callback
\* it invoked, and isRunning).
RtInit ==
  [stage |-> "on", updateCallbacks |-> <<>>, updateIntervals |-> {},
   isRunning |-> FALSE, subs |-> <<>>, unsubscribed |-> {},
   live |-> [t \in IntervalTypes |-> 0],
   pending |-> EmptyBag,
   last |-> [any |-> FALSE, from |-> "none", atStart |-> {}, called |-> {},
             running |-> FALSE]]

\* The instance after startRealTimeUpdates and its initial load completed,
\* nobody subscribed yet.
RtStarted ==
  [RtInit EXCEPT !.isRunning = TRUE, !.updateIntervals = IntervalTypes,
                 !.live = [t \in IntervalTypes |-> 1]]

\* The instance after one onUpdate("f"), not started.
RtSubscribed ==
  [RtInit EXCEPT !.subs = <<"f">>, !.updateCallbacks = <<[fn |-> "f", sub |-> 1]>>]

RtComponents == {"subscribers", "realtime"}

\* Array.prototype.indexOf on updateCallbacks: the first position that holds
\* function fn, 0 when there is none (JS: -1).
IndexOfFn(cbs, fn) ==
  IF \E i \in 1..Len(cbs) : cbs[i].fn = fn
  THEN CHOOSE i \in 1..Len(cbs) :
         cbs[i].fn = fn /\ \A j \in 1..(i - 1) : cbs[j].fn # fn
  ELSE 0

\* splice(index, 1).
Splice(cbs, index) ==
  [i \in 1..(Len(cbs) - 1) |-> IF i < index THEN cbs[i] ELSE cbs[i + 1]]

\* newsService.ts:697-702, the unsubscribe function returned for a
\* subscription of function fn.
Unsubscribe(cbs, fn) ==
  LET index == IndexOfFn(cbs, fn) IN
  IF index > 0 THEN Splice(cbs, index) ELSE cbs

\* newsService.ts:705-713, notifyUpdate: forEach visits the positions
\* 1..len0 (the length at its start) that still exist when it gets to them.
\* Function who, whenever it is invoked, calls the unsubscribe function of
\* subscription target (who = "none": no callback unsubscribes anything).
\* Gives the array afterwards and the subscriptions invoked.
RECURSIVE ForEach(_, _, _, _, _, _)
ForEach(cbs, k, len0, called, who, targetFn) ==
  IF k > len0 \/ k > Len(cbs) THEN [cbs |-> cbs, called |-> called]
  ELSE ForEach(IF cbs[k].fn = who THEN Unsubscribe(cbs, targetFn) ELSE cbs,
               k + 1, len0, called \cup {cbs[k].sub}, who, targetFn)

NotifyUpdate(cbs, who, targetFn) == ForEach(cbs, 1, Len(cbs), {}, who, targetFn)

\* What the callbacks do during one notification: nothing, or function who
\* calls the unsubscribe function of subscription target when it is invoked.
CallbackBehaviours(r) ==
  {[who |-> "none", target |-> 0]} \cup
  {[who |-> fn, target |-> s] : fn \in Fns, s \in 1..Len(r.subs)}

\* The instance after notifyUpdate ran for a fetch started by from.
Notified(r, beh, from) ==
  LET targetFn == IF beh.target = 0 THEN "none" ELSE r.subs[beh.target]
      out == NotifyUpdate(r.updateCallbacks, beh.who, targetFn)
      invoked == \E i \in 1..Len(r.updateCallbacks) :
                    r.updateCallbacks[i].fn = beh.who IN
  [r EXCEPT !.updateCallbacks = out.cbs,
            !.unsubscribed = IF invoked THEN @ \cup {beh.target} ELSE @,
            !.last = [any |-> TRUE,
                      from |-> from,
                      atStart |-> {r.updateCallbacks[i].sub : i \in 1..Len(r.updateCallbacks)},
                      called |-> out.called,
                      running |-> r.isRunning]]

\* onUpdate(callback): push, and hand back the unsubscribe function.
RtOnUpdate(fn) ==
  /\ sut = "subscribers"
  /\ Len(rt.subs) < MaxSubs
  /\ rt' = [rt EXCEPT !.subs = Append(@, fn),
                      !.updateCallbacks = Append(@, [fn |-> fn, sub |-> Len(rt.subs) + 1])]
  /\ UNCHANGED <<clientVars, serverVars, pureVars, page>>

\* The unsubscribe function of subscription s is called (outside of a
\* notification), for the first time or again.
RtUnsubscribe(s) ==
  /\ sut = "subscribers"
  /\ s \in 1..Len(rt.subs)
  /\ rt' = [rt EXCEPT !.updateCallbacks = Unsubscribe(@, rt.subs[s]),
                      !.unsubscribed = @ \cup {s}]
  /\ UNCHANGED <<clientVars, serverVars, pureVars, page>>

\* One more fetch awaited.
Awaiting(pending, from, type) ==
  pending (+) SetToBag({[from |-> from, type |-> type]})

\* startRealTimeUpdates() up to its first await: returns at once when
\* running; else sets both intervals and starts performInitialDataLoad, which
\* awaits getConflictNews.
RtStartRealTimeUpdates ==
  /\ sut = "realtime"
  /\ rt.isRunning \/ BagCardinality(rt.pending) < MaxPending
  /\ rt' = IF rt.isRunning THEN rt
           ELSE [rt EXCEPT !.isRunning = TRUE,
                           !.live = [t \in IntervalTypes |-> @[t] + 1],
                           !.updateIntervals = IntervalTypes,
                           !.pending = Awaiting(@, "initial", "news")]
  /\ UNCHANGED <<clientVars, serverVars, pureVars, page>>

\* stopRealTimeUpdates(): clears the intervals the map holds.
RtStopRealTimeUpdates ==
  /\ sut = "realtime"
  /\ rt' = [rt EXCEPT !.isRunning = FALSE,
                      !.live = [t \in IntervalTypes |->
                                  IF t \in rt.updateIntervals THEN @[t] - 1 ELSE @[t]],
                      !.updateIntervals = {}]
  /\ UNCHANGED <<clientVars, serverVars, pureVars, page>>

\* An interval timer fires: its callback runs up to the await of its fetch.
RtIntervalFires(type) ==
  /\ sut \in RtComponents
  /\ rt.live[type] > 0
  /\ BagCardinality(rt.pending) < MaxPending
  /\ rt' = [rt EXCEPT !.pending = Awaiting(@, "interval", type)]
  /\ UNCHANGED <<clientVars, serverVars, pureVars, page>>

\* newsService.ts:953-982, refreshNews(), refreshStockData(symbols) and
\* analyzeConflictWithAI(newsText, companies), the public methods for manual
\* updates of type 'news', 'stock' and 'analysis', up to their await.
RtRefresh(type) ==
  /\ sut \in RtComponents
  /\ BagCardinality(rt.pending) < MaxPending
  /\ rt' = [rt EXCEPT !.pending = Awaiting(@, "refresh", type)]
  /\ UNCHANGED <<clientVars, serverVars, pureVars, page>>

\* The fetches awaited, and what the callbacks may do at the next
\* notification, in the instance under test.
RtPending == IF sut \in RtComponents THEN BagToSet(rt.pending) ELSE {}
RtBehaviours ==
  IF sut = "subscribers" THEN CallbackBehaviours(rt)
  ELSE IF sut = "realtime" THEN {[who |-> "none", target |-> 0]}
  ELSE {}

\* A fetch p settles. On success notifyUpdate runs (and the initial load goes
\* on to the stock data); on failure the catch block of the interval callback
\* or of performInitialDataLoad logs, and the promise of a manual update
\* rejects: no notification.
RtFetchReturns(p, ok, beh) ==
  /\ sut \in RtComponents
  /\ p \in RtPending
  /\ beh \in RtBehaviours
  /\ LET left == rt.pending (-) SetToBag({p})
         r == [rt EXCEPT !.pending =
                 IF ok /\ p.from = "initial" /\ p.type = "news"
                 THEN Awaiting(left, "initial", "stock") ELSE left] IN
     rt' = IF ok THEN Notified(r, beh, p.from) ELSE r
  /\ UNCHANGED <<clientVars, serverVars, pureVars, page>>

\* ====================================================================== spec
\* The outcomes of a fetch and of reading its body.
FetchOutcomes == {"ok", "httpError", "throw"}
BodyOutcomes == {"json", "throw"}
FinancialOutcomes == {"throw", "parseFail", "parsed"}

\* The state once the module of the component under test is loaded. The
\* constructor of FastApiService calls preloadData(), whose getCrisisData()
\* runs synchronously up to the fetch of /health: call 1 is in flight.
\* The server starts with or without its credential in the environment.
Init ==
  /\ sut \in Components \cup OtherComponents
  /\ now = 0
  /\ ticks = 0
  /\ cache = NoData
  /\ lastFetch = Null
  /\ isLoading = (sut = "fast")
  /\ loadingPromise = IF sut = "fast" THEN 1 ELSE 0
  /\ nIssued = IF sut = "fast" THEN 1 ELSE 0
  /\ upd = NoUpd
  /\ calls = [c \in CallIds |->
       IF sut = "fast" /\ c = 1
       THEN [NoCall EXCEPT !.st = "health", !.path = "start", !.prod = 1,
                           !.health = 1]
       ELSE NoCall]
  /\ token \in (IF sut = "server" THEN TokenValues ELSE {""})
  /\ nReqs = 0
  /\ reqs = [r \in ReqIds |-> NoReq]
  /\ san = [stage |-> "idle"]
  /\ coerce = [stage |-> "idle"]
  /\ fb = [stage |-> "idle"]
  /\ page \in (IF sut = "page" THEN PageInits ELSE {[stage |-> "idle"]})
  /\ rt = (IF sut = "subscribers" THEN RtStarted
           ELSE IF sut = "realtime" THEN RtSubscribed
           ELSE [stage |-> "idle"])

\* The steps of FastApiService and SecureApiService, the two services that
\* POST /analyze-crisis to the server, and of the clock.
NextHealthGated ==
  \/ Tick
  \/ \E force \in BOOLEAN : FastGetCrisisData(force)
  \/ \E p \in CallIds, ok \in BOOLEAN : FastHealthReturns(p, ok)
  \/ \E p \in CallIds, o \in FetchOutcomes : FastPostReturns(p, o)
  \/ \E p \in CallIds, o \in BodyOutcomes : FastBodyReturns(p, o)
  \/ \E c \in CallIds : FastFinally(c)
  \/ \E c \in CallIds : FastJoinerSettles(c)
  \/ FastForceRefresh
  \/ \E force \in BOOLEAN : SecureGetCrisisData(force)
  \/ \E c \in CallIds, ok \in BOOLEAN : SecureHealthReturns(c, ok)
  \/ \E c \in CallIds, o \in FetchOutcomes : SecurePostReturns(c, o)
  \/ \E c \in CallIds, o \in BodyOutcomes : SecureBodyReturns(c, o)
  \/ SecureClearCache

\* The steps of the client services.
NextClient ==
  \/ NextHealthGated
  \/ \E force \in BOOLEAN : GptGetAllCrisisData(force)
  \/ \E c \in CallIds, o \in GptOutcomes : GptRunReturns(c, o)
  \/ GptClearCache
  \/ \E inCache \in BOOLEAN : GptUpdateSpecificEvent(inCache)
  \/ \E u \in CallIds, o \in UpdateOutcomes, found \in BOOLEAN :
       GptUpdateReturns(u, o, found)
  \/ ProfitAnalyze
  \/ \E c \in CallIds, o \in FetchOutcomes : ProfitFetchReturns(c, o)
  \/ \E c \in CallIds, o \in BodyOutcomes : ProfitBodyReturns(c, o)

\* The steps of the server: its two handlers.
NextServer ==
  \/ CrisisArrive
  \/ \E r \in ReqIds, ok \in BOOLEAN : CrisisImportReturns(r, ok)
  \/ \E r \in ReqIds, o \in CrisisOutcomes, ev \in EventLists,
          msg \in ExceptionMessages : CrisisModelReturns(r, o, ev, msg)
  \/ \E b \in RequestBodies, cd \in CrisisDataShapes, at \in AnalysisTypes :
       FinancialArrive(b, cd, at)
  \/ \E r \in ReqIds, ok \in BOOLEAN : FinancialImportReturns(r, ok)
  \/ \E r \in ReqIds, o \in FinancialOutcomes, pk \in ParsedKeySets,
          msg \in ExceptionMessages : FinancialModelReturns(r, o, pk, msg)

\* The steps of the user interface: a consent-gated page and the
\* RealTimeDataManager.
NextUi ==
  \/ HookCheckInitialConsents
  \/ PageCheckFeatureAccess
  \/ HookAfterTradingCheck
  \/ LoadFeatureAfterConsentCheck
  \/ HookAfterPredictionsCheck
  \/ \E o \in ImportOutcomes : LoadFeatureAfterImport(o)
  \/ PageAfterLoadFeature
  \/ PageTick
  \/ \E d \in ConsentInputs : LegalRecordConsent(d)
  \/ \E d \in ConsentInputs : LegalRevokeConsent(d)
  \/ LegalClearAllConsents
  \/ \E fn \in Fns : RtOnUpdate(fn)
  \/ \E s \in SubIds : RtUnsubscribe(s)
  \/ RtStartRealTimeUpdates
  \/ RtStopRealTimeUpdates
  \/ \E t \in IntervalTypes : RtIntervalFires(t)
  \/ \E t \in UpdateTypes : RtRefresh(t)
  \/ \E p \in RtPending, ok \in BOOLEAN, beh \in RtBehaviours :
       RtFetchReturns(p, ok, beh)

Next == NextClient \/ NextServer \/ NextUi

Spec == Init /\ [][Next]_vars

\* One part of the program at a time: a behaviour exercises one component, so
\* the behaviours of Spec are those of the three specifications below.
InitClient == Init /\ sut \in Services
SpecClient == InitClient /\ [][NextClient]_vars
InitServer == Init /\ sut = "server"
SpecServer == InitServer /\ [][NextServer]_vars
InitUi == Init /\ sut \in {"page", "subscribers", "realtime"}
SpecUi == InitUi /\ [][NextUi]_vars

\* The two sides of POST /analyze-crisis, one of them per behaviour: a client
\* service that sends the request, or the server that handles it.
InitCalls == Init /\ sut \in {"fast", "secure", "server"}
NextCalls == NextHealthGated \/ NextServer
SpecCalls == InitCalls /\ [][NextCalls]_vars

\* The steps the runtime of the client takes by itself: the abort timer of
\* FastApiService.checkServerHealth (2 s) ends the health check whatever the
\* backend does, and the continuations of settled promises run. No such
\* guarantee exists for the answers of the backend and of the model: the
\* other awaits (the POST fetch and response.json() of every service, the
\* health check of SecureApiService, replicate.run) carry no timer.
SpecLive ==
  /\ Spec
  /\ WF_vars(\E p \in CallIds, ok \in BOOLEAN : FastHealthReturns(p, ok))
  /\ WF_vars(\E c \in CallIds : FastFinally(c))
  /\ WF_vars(\E c \in CallIds : FastJoinerSettles(c))

\* ==================================================================== claims
\* Calls that have been issued, and calls that settled with a value.
IssuedCalls == {c \in CallIds : calls[c].st # "new"}
DoneCalls == {c \in CallIds : calls[c].st = "done"}
\* Requests of an endpoint that have been answered.
Answered(ep) == {r \in ReqIds : reqs[r].ep = ep /\ reqs[r].st = "done"}

\* C1: FastApiService.getCrisisData coalesces. At most one fetchFreshData is
\* in flight; a call issued while one is in flight and not served from the
\* cache joins it and sends no request of its own; a production sends one
\* health check and at most one POST /analyze-crisis; every caller of a
\* production settles with the value of that production.
C1_FastCoalesces ==
  sut = "fast" =>
    /\ Cardinality(InFlight) <= 1
    /\ \A c \in IssuedCalls :
         /\ (calls[c].seen # 0 /\ calls[c].path # "hit") =>
              /\ calls[c].path = "join"
              /\ calls[c].prod = calls[c].seen
              /\ calls[c].health = 0
              /\ calls[c].post = 0
         /\ calls[c].path = "start" =>
              /\ calls[c].health = 1
              /\ calls[c].post <= 1
         /\ (calls[c].path = "join" /\ calls[c].st = "done") =>
              /\ calls[calls[c].prod].res = calls[c].res
              /\ calls[c].res # NoData

\* Witness of C1: a caller joined the production of another call while it was
\* in flight, the production fetched fresh data and both settled with it.
C1_Witness ==
  /\ sut = "fast"
  /\ \E c \in DoneCalls :
       /\ calls[c].path = "join"
       /\ calls[c].seen = calls[c].prod
       /\ calls[calls[c].prod].st = "done"
       /\ calls[calls[c].prod].post = 1
       /\ calls[c].res = Fresh(calls[c].prod)

\* C2 (as claimed): in SecureApiService, GPTCrisisService and
\* ProfitPredictorService at most one production is in flight, and a call made
\* while one is running sends no outbound request of its own.
C2_OthersCoalesce ==
  sut \in {"secure", "gpt", "profit"} =>
    /\ Cardinality(InFlight) <= 1
    /\ \A c \in IssuedCalls :
         (calls[c].seen # 0 /\ calls[c].path # "hit") =>
           calls[c].health = 0 /\ calls[c].post = 0

\* C3 (as claimed): a POST /api/analyze-crisis that arrives while the model
\* call of another one is in flight makes no model call of its own, and both
\* responses carry the same totalEvents.
C3_ServerCoalesces ==
  \A r \in ReqIds :
    (reqs[r].ep = "crisis" /\ reqs[r].overlap # 0) =>
      /\ reqs[r].modelCalls = 0
      /\ (reqs[r].st = "done" /\ reqs[reqs[r].overlap].st = "done") =>
           reqs[r].resp.totalEvents = reqs[reqs[r].overlap].resp.totalEvents

\* C4: TTL boundary of FastApiService and SecureApiService. A call without
\* forceRefresh that finds a cache entry of age < CACHE_DURATION returns it
\* and sends no request; one that finds an entry of age >= CACHE_DURATION
\* does not return from the cache check: it starts a production (which sends
\* its health check) or joins the one in flight.
C4_TtlBoundary ==
  sut \in {"fast", "secure"} =>
    \A c \in IssuedCalls :
      ~calls[c].force =>
        /\ calls[c].checkAge = "young" =>
             /\ calls[c].st = "done"
             /\ calls[c].path = "hit"
             /\ calls[c].res # NoData
             /\ calls[c].health = 0
             /\ calls[c].post = 0
        /\ calls[c].checkAge = "old" =>
             /\ calls[c].path \in {"start", "join"}
             /\ calls[c].path = "start" => calls[c].health = 1
             /\ calls[c].path = "join" =>
                  sut = "fast" /\ calls[c].health = 0 /\ calls[c].post = 0

\* Witness of C4: a call without forceRefresh has just found the entry at age
\* exactly CACHE_DURATION and started a production instead of returning it.
C4_Witness ==
  /\ sut \in {"fast", "secure"}
  /\ \E c \in IssuedCalls :
       /\ ~calls[c].force
       /\ calls[c].checkAge = "old"
       /\ calls[c].st = "health"
       /\ cache # NoData
       /\ CacheAge = CACHE_DURATION(sut)

\* C5 (as claimed): no call returns a cache entry whose age is at least
\* CACHE_DURATION, on any path.
C5_NeverReturnsExpired ==
  \A c \in DoneCalls :
    calls[c].how \in {"hit", "cacheOnError"} => calls[c].resAge # "old"

\* C5 (amended): the cache check returns an entry only at age <
\* CACHE_DURATION and a failed health check gives the static fallback, never
\* the cache; an entry of age >= CACHE_DURATION is returned only by the catch
\* block, after an HTTP error or a thrown exception.
C5_ExpiredOnlyFromCatch ==
  sut \in {"fast", "secure", "gpt"} =>
    \A c \in DoneCalls :
      /\ calls[c].how = "hit" => calls[c].resAge = "young"
      /\ calls[c].fail = "health" => calls[c].res = getFallbackData
      /\ calls[c].resAge = "old" =>
           calls[c].how = "cacheOnError" /\ calls[c].fail = "error"

\* Witness of C5: a call settled with the expired cache entry after an error.
C5_Witness ==
  \E c \in DoneCalls :
    /\ calls[c].how = "cacheOnError"
    /\ calls[c].resAge = "old"
    /\ calls[c].res # NoData
    /\ calls[c].fail = "error"

\* C6 (as claimed): every response of POST /api/analyze-crisis carries a
\* non-empty events list, as events or inside fallback.
C6_NeverNoData ==
  \A r \in Answered("crisis") :
    \/ "events" \in reqs[r].resp.keys /\ reqs[r].resp.nEvents > 0
    \/ /\ "fallback" \in reqs[r].resp.keys
       /\ "events" \in reqs[r].resp.fallbackKeys
       /\ reqs[r].resp.fallbackEvents > 0

\* C7: no call of FastApiService.getCrisisData, SecureApiService.getCrisisData
\* or GPTCrisisService.getAllCrisisData rejects; a settled call holds a
\* CrisisData value that is fresh, cached or the static fallback.
C7_NeverRejects ==
  sut \in {"fast", "secure", "gpt"} =>
    \A c \in IssuedCalls :
      /\ calls[c].st \notin {"rejected", "failed"}
      /\ calls[c].st = "done" =>
           /\ calls[c].res.src \in {"backend", "static"}
           /\ calls[c].how \in {"hit", "fresh", "cacheOnError", "fallback"}

\* Witness of C7: a call whose model or HTTP call failed with an empty cache
\* settled with the static fallback.
C7_Witness ==
  /\ sut \in {"fast", "secure", "gpt"}
  /\ \E c \in DoneCalls :
       /\ calls[c].fail = "error"
       /\ calls[c].how = "fallback"
       /\ calls[c].res = getFallbackData

\* C8 (as claimed): every HTTP 500 answer of POST /api/analyze-crisis holds an
\* error string and a fallback object with the keys of a success body.
C8_ErrorBodyHasFallback ==
  \A r \in Answered("crisis") :
    reqs[r].resp.status = 500 =>
      /\ reqs[r].resp.error # ""
      /\ "fallback" \in reqs[r].resp.keys
      /\ {"events", "lastUpdated", "totalEvents", "highRiskEvents"}
           \subseteq reqs[r].resp.fallbackKeys

\* C9 (as claimed): a POST /api/analyze-financial whose body lacks
\* crisisData, its events list or analysisType is answered at once with
\* HTTP 400 'Missing required parameters', whatever the credential, and makes
\* no model call.
C9_MissingFieldIs400 ==
  \A r \in ReqIds :
    (/\ reqs[r].ep = "financial"
     /\ \/ reqs[r].crisisData \in {"absent", "noEvents"}
        \/ reqs[r].analysisType = "absent") =>
      /\ reqs[r].st = "done"
      /\ reqs[r].resp.status = 400
      /\ reqs[r].resp.error = "Missing required parameters"
      /\ reqs[r].modelCalls = 0

\* C10 (as claimed): POST /api/analyze-financial makes a model call only with
\* a prompt built for one of the two supported analysis kinds.
C10_NoCallForUnsupportedKind ==
  \A r \in ReqIds :
    (reqs[r].ep = "financial" /\ reqs[r].modelCalls > 0) =>
      /\ reqs[r].analysisType \in {"profit-opportunities", "trading-signals"}
      /\ reqs[r].prompt \in {"profit-opportunities", "trading-signals"}

\* C11: every response of POST /api/analyze-financial whose status is not 400
\* has the key lastUpdated and the key analysisType, the latter holding the
\* analysisType of the request: also when the parsed JSON of the model has
\* keys of these names, and also when the status is 500.
C11_LastUpdatedAndEcho ==
  \A r \in Answered("financial") :
    reqs[r].resp.status # 400 =>
      /\ {"lastUpdated", "analysisType"} \subseteq reqs[r].resp.keys
      /\ reqs[r].resp.analysisType = reqs[r].analysisType

\* C12: a single attempt per call. A handling of /api/analyze-crisis or of
\* /api/analyze-financial issues at most one model call and sends exactly
\* one response (none before it ends, one once it has ended); a production
\* of FastApiService or SecureApiService sends at most one POST
\* /analyze-crisis. No failure re-issues the call.
C12_SingleAttempt ==
  /\ \A r \in ReqIds :
       /\ reqs[r].modelCalls <= 1
       /\ reqs[r].sent = (IF reqs[r].st = "done" THEN 1 ELSE 0)
  /\ sut \in {"fast", "secure"} => \A c \in CallIds : calls[c].post <= 1

\* A production of FastApiService or SecureApiService whose POST
\* /analyze-crisis failed (the fetch threw or answered with !response.ok, or
\* reading the body threw) has settled from its catch block, having sent
\* that one POST.
C12_Witness ==
  /\ sut \in {"fast", "secure"}
  /\ \E c \in CallIds :
       /\ calls[c].st = "done"
       /\ calls[c].prod = c
       /\ calls[c].fail = "error"
       /\ calls[c].post = 1

\* The error texts the server answers with.
FixedErrorStrings ==
  {"Server configuration error", "Analysis temporarily unavailable",
   "Financial analysis temporarily unavailable", "Missing required parameters"}

\* C13: the body of an error response depends neither on the exception nor
\* on the credential. Its error text is one of the four fixed strings, never
\* the message of an exception and never the credential; and two handlings
\* of one endpoint that each caught an exception, whatever the messages,
\* answer with the same body.
C13_ErrorBodyIndependent ==
  /\ \A r \in ReqIds :
       (reqs[r].st = "done" /\ reqs[r].resp.status >= 400) =>
         /\ reqs[r].resp.error \in FixedErrorStrings
         /\ reqs[r].resp.error \notin ExceptionMessages \cup {token}
  /\ \A r1, r2 \in ReqIds :
       ( /\ reqs[r1].st = "done" /\ reqs[r2].st = "done"
         /\ reqs[r1].ep = reqs[r2].ep
         /\ reqs[r1].exc # "" /\ reqs[r2].exc # "" ) =>
         reqs[r1].resp = reqs[r2].resp

\* Two handlings of /api/analyze-crisis ended after exceptions with
\* different messages, the credential being set.
C13_Witness ==
  \E r1, r2 \in ReqIds :
    /\ reqs[r1].st = "done" /\ reqs[r2].st = "done"
    /\ reqs[r1].ep = "crisis" /\ reqs[r2].ep = "crisis"
    /\ reqs[r1].exc \in ExceptionMessages /\ reqs[r2].exc \in ExceptionMessages
    /\ reqs[r1].exc # reqs[r2].exc
    /\ token # ""

\* ================================================================ sanitizer
\* A text is a sequence of the elements below: "FENCE" for a run of three
\* backticks (a character a string of this module cannot hold), the word
\* json, the two braces, a space, a newline and a digit. Positions
\* and lengths count elements; every element but the first two is one
\* character, and neither the fence nor json holds a brace or a blank, so the
\* comparisons of positions the code makes come out as on the characters.
Chars == {"FENCE", "json", "{", "}", " ", "\n", "1"}

\* Longest text of which every arrangement of elements is tried.
MaxTextLen == 4

ShortTexts == UNION {[1..n -> Chars] : n \in 0..MaxTextLen}

\* Texts of the form prose, opening fence, JSON object, closing fence, prose.
Prose == {<<>>} \cup {<<c>> : c \in Chars}
OpenFences == {<<"FENCE">>, <<"FENCE", "json">>, <<"FENCE", "\n">>,
               <<"FENCE", "json", "\n">>}
JsonObjects == {<<"{", "}">>, <<"{", " ", "}">>, <<"{", "\n", "}">>}
CloseFences == {<<"FENCE">>, <<"\n", "FENCE">>}
FencedTexts ==
  {p \o f \o o \o c \o q :
     p \in Prose, f \in OpenFences, o \in JsonObjects, c \in CloseFences,
     q \in Prose}

Texts == ShortTexts \cup FencedTexts

\* \s of a regular expression and the blanks String.prototype.trim removes.
IsSpace(c) == c \in {" ", "\n"}

RECURSIVE TrimStart(_)
TrimStart(s) ==
  IF s # <<>> /\ IsSpace(Head(s)) THEN TrimStart(Tail(s)) ELSE s

RECURSIVE TrimEnd(_)
TrimEnd(s) ==
  IF s # <<>> /\ IsSpace(s[Len(s)]) THEN TrimEnd(SubSeq(s, 1, Len(s) - 1))
  ELSE s

\* String.prototype.trim
Trim(s) == TrimEnd(TrimStart(s))

\* String.prototype.indexOf and lastIndexOf for a one-character needle:
\* 0-based, -1 when absent.
IndexOf(s, c) ==
  IF \E i \in 1..Len(s) : s[i] = c
  THEN (CHOOSE i \in 1..Len(s) : s[i] = c /\ \A j \in 1..(i - 1) : s[j] # c) - 1
  ELSE -1

LastIndexOf(s, c) ==
  IF \E i \in 1..Len(s) : s[i] = c
  THEN (CHOOSE i \in 1..Len(s) :
          s[i] = c /\ \A j \in (i + 1)..Len(s) : s[j] # c) - 1
  ELSE -1

\* String.prototype.substring(from, to) for 0 <= from <= to <= length.
Substring(s, from, to) == SubSeq(s, from + 1, to)

\* One "\n" dropped from the front, when there is one: the \n? of a pattern.
DropNewline(s) == IF s # <<>> /\ Head(s) = "\n" THEN Tail(s) ELSE s

\* server/index.js:140, the first replace (fence, json, \s*, flag g): left
\* to right, every fence followed by json goes with the blanks after it.
RECURSIVE ServerStripJsonFence(_)
ServerStripJsonFence(s) ==
  IF s = <<>> THEN <<>>
  ELSE IF Len(s) >= 2 /\ s[1] = "FENCE" /\ s[2] = "json"
  THEN ServerStripJsonFence(TrimStart(SubSeq(s, 3, Len(s))))
  ELSE <<Head(s)>> \o ServerStripJsonFence(Tail(s))

\* server/index.js:140, the second replace (fence, \s*, flag g)
RECURSIVE ServerStripFence(_)
ServerStripFence(s) ==
  IF s = <<>> THEN <<>>
  ELSE IF s[1] = "FENCE" THEN ServerStripFence(TrimStart(Tail(s)))
  ELSE <<Head(s)>> \o ServerStripFence(Tail(s))

\* server/index.js:138-140: the text trimmed, then without its fences.
ServerFenceStripped(response) ==
  ServerStripFence(ServerStripJsonFence(Trim(response)))

\* server/index.js:136-151, cleanJsonResponse
ServerCleanJsonResponse(response) ==
  LET cleaned == ServerFenceStripped(response)
      jsonStart == IndexOf(cleaned, "{")
      jsonEnd == LastIndexOf(cleaned, "}") + 1 IN
  IF jsonStart # -1 /\ jsonEnd > jsonStart
  THEN Substring(cleaned, jsonStart, jsonEnd)
  ELSE cleaned

\* gptCrisisService.ts:279, the first replace (fence, json, \n?, flag g)
RECURSIVE GptStripJsonFence(_)
GptStripJsonFence(s) ==
  IF s = <<>> THEN <<>>
  ELSE IF Len(s) >= 2 /\ s[1] = "FENCE" /\ s[2] = "json"
  THEN GptStripJsonFence(DropNewline(SubSeq(s, 3, Len(s))))
  ELSE <<Head(s)>> \o GptStripJsonFence(Tail(s))

\* gptCrisisService.ts:279, the second replace (fence, \n?, flag g)
RECURSIVE GptStripFence(_)
GptStripFence(s) ==
  IF s = <<>> THEN <<>>
  ELSE IF s[1] = "FENCE" THEN GptStripFence(DropNewline(Tail(s)))
  ELSE <<Head(s)>> \o GptStripFence(Tail(s))

\* gptCrisisService.ts:279: the text without its fences.
GptFenceStripped(response) == GptStripFence(GptStripJsonFence(response))

\* gptCrisisService.ts:277-294, GPTCrisisService.cleanJsonResponse
GptCleanJsonResponse(response) ==
  LET stripped == GptFenceStripped(response)
      firstBrace == IndexOf(stripped, "{")
      fromBrace == IF firstBrace > 0
                   THEN Substring(stripped, firstBrace, Len(stripped))
                   ELSE stripped
      lastBrace == LastIndexOf(fromBrace, "}")
      toBrace == IF lastBrace > 0 /\ lastBrace < Len(fromBrace) - 1
                 THEN Substring(fromBrace, 0, lastBrace + 1)
                 ELSE fromBrace IN
  Trim(toBrace)

\* JSON.parse accepts the text. Of the JSON texts only these can be written
\* with Chars: a number of digits 1, and an object without members, each
\* with blanks around it (and, in the object, between the braces).
IsValidJson(s) ==
  LET t == Trim(s) IN
  /\ t # <<>>
  /\ \/ \A i \in 1..Len(t) : t[i] = "1"
     \/ /\ Len(t) >= 2
        /\ t[1] = "{"
        /\ t[Len(t)] = "}"
        /\ \A i \in 2..(Len(t) - 1) : IsSpace(t[i])

NoSan == [stage |-> "idle"]

\* The text of a model reply reaches both sanitizers.
Sanitize ==
  /\ san.stage = "input"
  /\ san' = [san EXCEPT !.stage = "cleaned",
                        !.server = ServerCleanJsonResponse(san.text),
                        !.gpt = GptCleanJsonResponse(san.text)]
  /\ UNCHANGED <<clientVars, serverVars, coerce, fb, moreVars>>

\* Each sanitizer is given its own output.
Resanitize ==
  /\ san.stage = "cleaned"
  /\ san' = [san EXCEPT !.stage = "recleaned",
                        !.server2 = ServerCleanJsonResponse(san.server),
                        !.gpt2 = GptCleanJsonResponse(san.gpt)]
  /\ UNCHANGED <<clientVars, serverVars, coerce, fb, moreVars>>

SanInputs ==
  {[stage |-> "input", text |-> t, server |-> <<>>, gpt |-> <<>>,
    server2 |-> <<>>, gpt2 |-> <<>>] : t \in Texts}

\* ================================================================== coercer
\* JavaScript values. A number with a fractional part is counted in
\* hundredths wherever the field it sits in is a fraction (price, change,
\* changePercent, confidence, marketImpact): 0.5 is 50, 100 is 10000; id and
\* riskScore are plain integers. A missing key reads as undefined.
Undefined == [t |-> "undefined"]
NaN == [t |-> "NaN"]
Num(n) == [t |-> "number", n |-> n]
Str(s) == [t |-> "string", s |-> s]
Arr(items) == [t |-> "array", items |-> items]

\* ToBoolean: undefined, NaN, 0 and "" are falsy.
Truthy(v) ==
  CASE v.t \in {"undefined", "NaN"} -> FALSE
    [] v.t = "number" -> v.n # 0
    [] v.t = "string" -> v.s # ""
    [] OTHER -> TRUE

\* a || b
OrElse(a, b) == IF Truthy(a) THEN a ELSE b

\* The strings that parseFloat reads as a number, with the number read.
NumericStrings == [s \in {"95.80"} |-> 9580]

\* parseFloat(v): a number is itself, a string is the number it starts
\* with, anything else is NaN.
ParseFloat(v) ==
  CASE v.t = "number" -> v
    [] v.t = "string" /\ v.s \in DOMAIN NumericStrings -> Num(NumericStrings[v.s])
    [] OTHER -> NaN

EventStrings == {"title", "description", "date", "type", "severity",
                 "location", "status"}
EventNumbers == {"id", "riskScore", "marketImpact"}
EventFields == EventStrings \cup EventNumbers \cup {"companies"}

CompanyStrings == {"name", "symbol", "role", "category", "involvement", "impact"}
CompanyNumbers == {"price", "change", "changePercent", "confidence"}
CompanyFields == CompanyStrings \cup CompanyNumbers

\* server/index.js:159-162: the defaults of the four numbers of a company.
ServerCompanyDefault ==
  [price |-> 100 * 100, change |-> 0, changePercent |-> 0, confidence |-> 50]

\* Company with the value of one of its number fields parsed and defaulted.
ServerProcessCompany(company) ==
  [f \in CompanyFields |->
     IF f \in CompanyNumbers
     THEN OrElse(ParseFloat(company[f]), Num(ServerCompanyDefault[f]))
     ELSE company[f]]

\* server/index.js:154-164, the function processEvents maps over events:
\* the event spread, id || random, companies?.map(...) || []. random is
\* Math.floor(Math.random() * 10000).
ServerProcessEvent(event, random) ==
  [f \in EventFields |->
     CASE f = "id" -> OrElse(event.id, Num(random))
       [] f = "companies" ->
            IF event.companies.t = "array"
            THEN Arr([i \in 1..Len(event.companies.items) |->
                        ServerProcessCompany(event.companies.items[i])])
            ELSE Arr(<<>>)
       [] OTHER -> event[f]]

\* server/index.js:153-165, processEvents; randoms[i] is the number
\* Math.random gives while event i is mapped.
ServerProcessEvents(events, randoms) ==
  [i \in 1..Len(events) |-> ServerProcessEvent(events[i], randoms[i])]

\* new Date().toISOString().split('T')[0]
Today == "2025-01-01"

\* gptCrisisService.ts:300-324: the defaults of processEvent.
GptEventDefault ==
  [title |-> Str("Unknown Crisis"), date |-> Str(Today),
   type |-> Str("Political Crisis"), severity |-> Str("Medium"),
   location |-> Str("Unknown"), status |-> Str("Ongoing"),
   description |-> Str("No description available"),
   riskScore |-> Num(50), marketImpact |-> Num(0)]

GptCompanyDefault ==
  [name |-> Str("Unknown Company"), symbol |-> Str("N/A"),
   price |-> Num(100 * 100), change |-> Num(0), changePercent |-> Num(0),
   role |-> Str("Unknown role"), category |-> Str("Technology"),
   involvement |-> Str("Unknown involvement"),
   impact |-> Str("Neutral impact"), confidence |-> Num(50)]

\* gptCrisisService.ts:300-324, GPTCrisisService.processEvent; index is the
\* 0-based position of the event.
GptProcessEvent(event, index) ==
  [f \in EventFields |->
     CASE f = "id" -> OrElse(event.id, Num(index + 1))
       [] f = "companies" ->
            LET items == IF Truthy(event.companies)
                         THEN event.companies.items ELSE <<>> IN
            Arr([i \in 1..Len(items) |->
                   [g \in CompanyFields |->
                      OrElse(items[i][g], GptCompanyDefault[g])]])
       [] OTHER -> OrElse(event[f], GptEventDefault[f])]

\* gptCrisisService.ts:296-298, GPTCrisisService.processEvents
GptProcessEvents(events) ==
  [i \in 1..Len(events) |-> GptProcessEvent(events[i], i - 1)]

\* The parsed events handed to processEvents. A valid company and a valid
\* event, then the families drawn from them.
BaseCompany ==
  [name |-> Str("Lockheed Martin"), symbol |-> Str("LMT"),
   price |-> Num(42850), change |-> Num(1275), changePercent |-> Num(307),
   role |-> Str("Weapons manufacturer"), category |-> Str("Arms Supplier"),
   involvement |-> Str("Supplies weapons"), impact |-> Str("Higher sales"),
   confidence |-> Num(90)]

BaseEvent ==
  [id |-> Num(1), title |-> Str("Regional conflict"),
   description |-> Str("Armed conflict"), date |-> Str("2024-01-15"),
   type |-> Str("War"), severity |-> Str("Critical"),
   location |-> Str("Eastern Europe"), status |-> Str("Ongoing"),
   riskScore |-> Num(92), marketImpact |-> Num(-180),
   companies |-> Arr(<<BaseCompany>>)]

\* rec (a record over fields) with the keys in missing left out.
Without(rec, fields, missing) ==
  [f \in fields |-> IF f \in missing THEN Undefined ELSE rec[f]]

\* One event that lacks a subset of its fields.
EventsMissingFields ==
  {<<Without(BaseEvent, EventFields, S)>> : S \in SUBSET EventFields}

\* One event whose company lacks a subset of its fields.
EventsMissingCompanyFields ==
  {<<[BaseEvent EXCEPT !.companies =
        Arr(<<Without(BaseCompany, CompanyFields, S)>>)]>> :
     S \in SUBSET CompanyFields}

\* One event with boundary, out-of-range and wrongly typed numbers.
RiskScoreInputs == {Num(0), Num(100), Num(150), Num(-5)}
MarketImpactInputs == {Num(0), Num(-180)}
ConfidenceInputs == {Num(0), Num(100), Num(150)}
PriceInputs == {Num(1), Num(0), Num(-500), Str("95.80"), Str("n/a")}
ChangeInputs == {Num(0), Num(-456)}

EventsWithNumbers ==
  {<<[BaseEvent EXCEPT !.riskScore = r, !.marketImpact = m,
        !.companies = Arr(<<[BaseCompany EXCEPT !.confidence = c,
                               !.price = p, !.change = d]>>)]>> :
     r \in RiskScoreInputs, m \in MarketImpactInputs,
     c \in ConfidenceInputs, p \in PriceInputs, d \in ChangeInputs}

\* Batches of events that differ in their ids, given or not; MaxBatch is
\* the longest batch.
MaxBatch == 2
IdInputs == {Undefined, Num(1), Num(2)}

EventsWithIds ==
  UNION {{[i \in 1..n |-> [BaseEvent EXCEPT !.id = ids[i]]] :
            ids \in [1..n -> IdInputs]} : n \in 0..MaxBatch}

ParsedEvents ==
  EventsMissingFields \cup EventsMissingCompanyFields \cup EventsWithNumbers
    \cup EventsWithIds

\* Values of Math.floor(Math.random() * 10000), which lies in 0..9999.
RandomIds == {0, 1, 9999}

CoerceInputs ==
  {[stage |-> "input", impl |-> "none", events |-> e, out |-> <<>>] :
     e \in ParsedEvents}

\* server/index.js:115, processEvents(parsedData.events || [])
ServerCoerce ==
  /\ coerce.stage = "input"
  /\ \E randoms \in [1..Len(coerce.events) -> RandomIds] :
       coerce' = [coerce EXCEPT !.stage = "done", !.impl = "server",
                    !.out = ServerProcessEvents(coerce.events, randoms)]
  /\ UNCHANGED <<clientVars, serverVars, san, fb, moreVars>>

\* gptCrisisService.ts:153, this.processEvents(parsedData.events || [])
GptCoerce ==
  /\ coerce.stage = "input"
  /\ coerce' = [coerce EXCEPT !.stage = "done", !.impl = "gpt",
                  !.out = GptProcessEvents(coerce.events)]
  /\ UNCHANGED <<clientVars, serverVars, san, fb, moreVars>>

\* ================================================================= fallback
\* server/index.js:167-210, getFallbackData(): its events.
ServerFallbackDataset ==
  <<
    [id |-> Num(1),
     title |-> Str("Ukraine-Russia Conflict"),
     description |-> Str("Ongoing military conflict affecting global markets and defense spending"),
     date |-> Str("2024-01-15"),
     type |-> Str("War"),
     severity |-> Str("Critical"),
     location |-> Str("Ukraine/Russia"),
     status |-> Str("Ongoing"),
     riskScore |-> Num(92),
     marketImpact |-> Num(-180),
     companies |-> Arr(<<
          [name |-> Str("Lockheed Martin"),
           symbol |-> Str("LMT"),
           price |-> Num(42850),
           change |-> Num(1275),
           changePercent |-> Num(307),
           role |-> Str("Defense contractor"),
           category |-> Str("Arms Supplier"),
           involvement |-> Str("Supplying military equipment and weapons systems"),
           impact |-> Str("Increased defense contracts boosting revenue"),
           confidence |-> Num(90)],
          [name |-> Str("Raytheon Technologies"),
           symbol |-> Str("RTX"),
           price |-> Num(9580),
           change |-> Num(720),
           changePercent |-> Num(812),
           role |-> Str("Weapons manufacturer"),
           category |-> Str("Arms Supplier"),
           involvement |-> Str("Missile systems and defense technology"),
           impact |-> Str("Higher demand for defense systems"),
           confidence |-> Num(85)]>>)]>>

\* SecureApiService.getFallbackData(): its events.
SecureFallbackDataset ==
  <<
    [id |-> Num(1),
     title |-> Str("Ukraine-Russia Conflict"),
     description |-> Str("Ongoing military conflict affecting global defense markets"),
     date |-> Str("2024-01-15"),
     type |-> Str("War"),
     severity |-> Str("Critical"),
     location |-> Str("Ukraine/Russia"),
     status |-> Str("Ongoing"),
     riskScore |-> Num(92),
     marketImpact |-> Num(-180),
     companies |-> Arr(<<
          [name |-> Str("Lockheed Martin"),
           symbol |-> Str("LMT"),
           price |-> Num(42850),
           change |-> Num(1275),
           changePercent |-> Num(307),
           role |-> Str("Defense contractor"),
           category |-> Str("Arms Supplier"),
           involvement |-> Str("Supplying military equipment and weapons systems"),
           impact |-> Str("Increased defense contracts boosting revenue"),
           confidence |-> Num(90)],
          [name |-> Str("Raytheon Technologies"),
           symbol |-> Str("RTX"),
           price |-> Num(9580),
           change |-> Num(720),
           changePercent |-> Num(812),
           role |-> Str("Weapons manufacturer"),
           category |-> Str("Arms Supplier"),
           involvement |-> Str("Missile systems and defense technology"),
           impact |-> Str("Higher demand for defense systems"),
           confidence |-> Num(85)]>>)],
    [id |-> Num(2),
     title |-> Str("Middle East Tensions"),
     description |-> Str("Regional conflicts affecting oil markets and energy companies"),
     date |-> Str("2024-02-01"),
     type |-> Str("Political Crisis"),
     severity |-> Str("High"),
     location |-> Str("Middle East"),
     status |-> Str("Escalating"),
     riskScore |-> Num(78),
     marketImpact |-> Num(230),
     companies |-> Arr(<<
          [name |-> Str("Exxon Mobil"),
           symbol |-> Str("XOM"),
           price |-> Num(11845),
           change |-> Num(520),
           changePercent |-> Num(459),
           role |-> Str("Oil producer"),
           category |-> Str("Energy"),
           involvement |-> Str("Benefiting from higher oil prices due to supply concerns"),
           impact |-> Str("Increased revenue from elevated oil prices"),
           confidence |-> Num(75)]>>)]>>

\* fastApiService.ts:124-322, FastApiService.getFastFallbackData(): its events.
FastFallbackDataset ==
  <<
    [id |-> Num(1),
     title |-> Str("Ukraine-Russia Conflict"),
     description |-> Str("Ongoing military conflict with significant global impact on defense markets and energy supplies"),
     date |-> Str("2024-02-15"),
     type |-> Str("War"),
     severity |-> Str("Critical"),
     location |-> Str("Ukraine/Russia"),
     status |-> Str("Ongoing"),
     riskScore |-> Num(94),
     marketImpact |-> Num(-210),
     companies |-> Arr(<<
          [name |-> Str("Lockheed Martin"),
           symbol |-> Str("LMT"),
           price |-> Num(43580),
           change |-> Num(1525),
           changePercent |-> Num(362),
           role |-> Str("Defense contractor"),
           category |-> Str("Arms Supplier"),
           involvement |-> Str("Supplying HIMARS, Javelin missiles, and F-16 support systems"),
           impact |-> Str("Massive increase in defense contracts and revenue"),
           confidence |-> Num(95)],
          [name |-> Str("Raytheon Technologies"),
           symbol |-> Str("RTX"),
           price |-> Num(9845),
           change |-> Num(890),
           changePercent |-> Num(994),
           role |-> Str("Weapons manufacturer"),
           category |-> Str("Arms Supplier"),
           involvement |-> Str("Patriot missile systems, Stinger missiles, radar technology"),
           impact |-> Str("Record high demand for missile defense systems"),
           confidence |-> Num(92)],
          [name |-> Str("General Dynamics"),
           symbol |-> Str("GD"),
           price |-> Num(26730),
           change |-> Num(1215),
           changePercent |-> Num(476),
           role |-> Str("Military equipment"),
           category |-> Str("Arms Supplier"),
           involvement |-> Str("Abrams tanks, artillery shells, ammunition production"),
           impact |-> Str("Expanded production capacity and government contracts"),
           confidence |-> Num(88)]>>)],
    [id |-> Num(2),
     title |-> Str("Middle East Energy Crisis"),
     description |-> Str("Regional tensions affecting global oil supply chains and energy markets"),
     date |-> Str("2024-03-01"),
     type |-> Str("Political Crisis"),
     severity |-> Str("High"),
     location |-> Str("Middle East"),
     status |-> Str("Escalating"),
     riskScore |-> Num(82),
     marketImpact |-> Num(380),
     companies |-> Arr(<<
          [name |-> Str("Exxon Mobil"),
           symbol |-> Str("XOM"),
           price |-> Num(12467),
           change |-> Num(789),
           changePercent |-> Num(676),
           role |-> Str("Oil producer"),
           category |-> Str("Energy"),
           involvement |-> Str("Benefiting from supply disruptions and higher oil prices"),
           impact |-> Str("Significant revenue increase from elevated crude prices"),
           confidence |-> Num(85)],
          [name |-> Str("Chevron"),
           symbol |-> Str("CVX"),
           price |-> Num(16245),
           change |-> Num(923),
           changePercent |-> Num(602),
           role |-> Str("Oil & gas"),
           category |-> Str("Energy"),
           involvement |-> Str("Alternative supply routes and increased production"),
           impact |-> Str("Higher margins and expanded market share"),
           confidence |-> Num(80)]>>)],
    [id |-> Num(3),
     title |-> Str("Taiwan Strait Tensions"),
     description |-> Str("Escalating military posturing affecting semiconductor and technology markets"),
     date |-> Str("2024-01-20"),
     type |-> Str("Political Crisis"),
     severity |-> Str("High"),
     location |-> Str("Taiwan/China"),
     status |-> Str("Escalating"),
     riskScore |-> Num(89),
     marketImpact |-> Num(-150),
     companies |-> Arr(<<
          [name |-> Str("Taiwan Semiconductor"),
           symbol |-> Str("TSM"),
           price |-> Num(9823),
           change |-> Num(-456),
           changePercent |-> Num(-444),
           role |-> Str("Semiconductor manufacturer"),
           category |-> Str("Technology"),
           involvement |-> Str("Critical supply chain vulnerability"),
           impact |-> Str("Supply chain risks affecting global tech production"),
           confidence |-> Num(90)],
          [name |-> Str("Northrop Grumman"),
           symbol |-> Str("NOC"),
           price |-> Num(45678),
           change |-> Num(1890),
           changePercent |-> Num(432),
           role |-> Str("Defense systems"),
           category |-> Str("Arms Supplier"),
           involvement |-> Str("Advanced missile defense and surveillance systems"),
           impact |-> Str("Increased demand for Pacific defense capabilities"),
           confidence |-> Num(87)]>>)],
    [id |-> Num(4),
     title |-> Str("African Sahel Conflicts"),
     description |-> Str("Multiple regional conflicts affecting mining and resource extraction"),
     date |-> Str("2024-02-10"),
     type |-> Str("War"),
     severity |-> Str("Medium"),
     location |-> Str("West Africa"),
     status |-> Str("Ongoing"),
     riskScore |-> Num(71),
     marketImpact |-> Num(120),
     companies |-> Arr(<<
          [name |-> Str("Newmont Corporation"),
           symbol |-> Str("NEM"),
           price |-> Num(4321),
           change |-> Num(215),
           changePercent |-> Num(524),
           role |-> Str("Gold mining"),
           category |-> Str("Mining"),
           involvement |-> Str("Operations in conflict-affected regions"),
           impact |-> Str("Higher gold prices due to regional instability"),
           confidence |-> Num(75)]>>)],
    [id |-> Num(5),
     title |-> Str("Global Cyber Warfare Escalation"),
     description |-> Str("State-sponsored cyber attacks targeting critical infrastructure"),
     date |-> Str("2024-03-05"),
     type |-> Str("Political Crisis"),
     severity |-> Str("High"),
     location |-> Str("Global"),
     status |-> Str("Escalating"),
     riskScore |-> Num(78),
     marketImpact |-> Num(230),
     companies |-> Arr(<<
          [name |-> Str("CrowdStrike"),
           symbol |-> Str("CRWD"),
           price |-> Num(26789),
           change |-> Num(2345),
           changePercent |-> Num(959),
           role |-> Str("Cybersecurity"),
           category |-> Str("Technology"),
           involvement |-> Str("Increased demand for threat detection and response"),
           impact |-> Str("Massive growth in cybersecurity contracts"),
           confidence |-> Num(93)],
          [name |-> Str("Palo Alto Networks"),
           symbol |-> Str("PANW"),
           price |-> Num(29867),
           change |-> Num(1987),
           changePercent |-> Num(713),
           role |-> Str("Network security"),
           category |-> Str("Technology"),
           involvement |-> Str("Critical infrastructure protection services"),
           impact |-> Str("Government and enterprise security spending surge"),
           confidence |-> Num(89)]>>)]>>

\* gptCrisisService.ts:327-399, GPTCrisisService.getFallbackData(): its events.
GptFallbackDataset ==
  <<
    [id |-> Num(1),
     title |-> Str("Ukraine-Russia Conflict"),
     description |-> Str("Ongoing military conflict between Russia and Ukraine affecting global markets and supply chains"),
     date |-> Str("2022-02-24"),
     type |-> Str("War"),
     severity |-> Str("Critical"),
     location |-> Str("Ukraine, Eastern Europe"),
     status |-> Str("Ongoing"),
     riskScore |-> Num(95),
     marketImpact |-> Num(-320),
     companies |-> Arr(<<
          [name |-> Str("Lockheed Martin"),
           symbol |-> Str("LMT"),
           price |-> Num(42550),
           change |-> Num(1230),
           changePercent |-> Num(298),
           role |-> Str("Defense contractor supplying weapons systems"),
           category |-> Str("Arms Supplier"),
           involvement |-> Str("Providing missile systems and military equipment to Ukraine"),
           impact |-> Str("Positive due to increased defense spending"),
           confidence |-> Num(90)],
          [name |-> Str("Raytheon Technologies"),
           symbol |-> Str("RTX"),
           price |-> Num(11575),
           change |-> Num(845),
           changePercent |-> Num(787),
           role |-> Str("Defense contractor"),
           category |-> Str("Arms Supplier"),
           involvement |-> Str("Supplying air defense systems"),
           impact |-> Str("Significant positive impact from defense contracts"),
           confidence |-> Num(85)]>>)],
    [id |-> Num(2),
     title |-> Str("Middle East Tensions"),
     description |-> Str("Escalating conflict affecting regional stability and global oil markets"),
     date |-> Str("2023-10-07"),
     type |-> Str("War"),
     severity |-> Str("High"),
     location |-> Str("Israel, Palestine, Middle East"),
     status |-> Str("Ongoing"),
     riskScore |-> Num(85),
     marketImpact |-> Num(180),
     companies |-> Arr(<<
          [name |-> Str("Exxon Mobil"),
           symbol |-> Str("XOM"),
           price |-> Num(11890),
           change |-> Num(520),
           changePercent |-> Num(457),
           role |-> Str("Energy company"),
           category |-> Str("Energy"),
           involvement |-> Str("Oil price volatility affecting operations"),
           impact |-> Str("Positive from higher oil prices"),
           confidence |-> Num(75)]>>)]>>

\* The four functions that return a static dataset.
ServerGetFallbackData ==
  /\ fb.stage = "call"
  /\ fb' = [stage |-> "returned", from |-> "server", events |-> ServerFallbackDataset,
            totalEvents |-> Undefined, highRiskEvents |-> Undefined]
  /\ UNCHANGED <<clientVars, serverVars, san, coerce, moreVars>>

SecureGetFallbackData ==
  /\ fb.stage = "call"
  /\ fb' = [stage |-> "returned", from |-> "secure", events |-> SecureFallbackDataset,
            totalEvents |-> Num(2), highRiskEvents |-> Num(2)]
  /\ UNCHANGED <<clientVars, serverVars, san, coerce, moreVars>>

FastGetFastFallbackData ==
  /\ fb.stage = "call"
  /\ fb' = [stage |-> "returned", from |-> "fast", events |-> FastFallbackDataset,
            totalEvents |-> Num(5), highRiskEvents |-> Num(4)]
  /\ UNCHANGED <<clientVars, serverVars, san, coerce, moreVars>>

GptGetFallbackData ==
  /\ fb.stage = "call"
  /\ fb' = [stage |-> "returned", from |-> "gpt", events |-> GptFallbackDataset,
            totalEvents |-> Num(2), highRiskEvents |-> Num(2)]
  /\ UNCHANGED <<clientVars, serverVars, san, coerce, moreVars>>

\* The values the sources enumerate for type, severity, status and
\* category: the prompt of the server (server/index.js:62-75) together with
\* the unions of gptCrisisService.ts:15-40.
DocumentedTypes ==
  {"War", "Natural Disaster", "Terrorist Attack", "Industrial Accident",
   "Political Crisis", "Economic Crisis"}
DocumentedSeverities == {"Critical", "High", "Medium", "Low"}
DocumentedStatuses ==
  {"Ongoing", "Developing", "Escalating", "De-escalating", "Resolved"}
DocumentedCategories ==
  {"Arms Supplier", "Defense Contractor", "Cleanup Contractor", "Cleanup",
   "Insurance", "Technology", "Energy", "Healthcare", "Logistics",
   "Construction", "Financial"}

\* ------------------------------------------------------------ pure functions
\* The state in which no service and no handler runs.
ProgramIdle ==
  /\ sut = "none"
  /\ now = 0
  /\ ticks = 0
  /\ cache = NoData
  /\ lastFetch = Null
  /\ isLoading = FALSE
  /\ loadingPromise = 0
  /\ nIssued = 0
  /\ calls = [c \in CallIds |-> NoCall]
  /\ upd = NoUpd
  /\ token = ""
  /\ nReqs = 0
  /\ reqs = [r \in ReqIds |-> NoReq]
  /\ page = [stage |-> "idle"]
  /\ rt = [stage |-> "idle"]

\* One function is given one input drawn from its input set.
InitPure ==
  /\ ProgramIdle
  /\ \/ san \in SanInputs /\ coerce = [stage |-> "idle"] /\ fb = [stage |-> "idle"]
     \/ san = NoSan /\ coerce \in CoerceInputs /\ fb = [stage |-> "idle"]
     \/ san = NoSan /\ coerce = [stage |-> "idle"] /\ fb = [stage |-> "call"]

NextPure ==
  \/ Sanitize
  \/ Resanitize
  \/ ServerCoerce
  \/ GptCoerce
  \/ ServerGetFallbackData
  \/ SecureGetFallbackData
  \/ FastGetFastFallbackData
  \/ GptGetFallbackData

SpecPure == InitPure /\ [][NextPure]_vars

\* C14: sanitization is idempotent on its valid-JSON outputs. For each of
\* the two cleanJsonResponse and every text t: if s = cleanJsonResponse(t)
\* is a text JSON.parse accepts, then cleanJsonResponse(s) = s.
C14_IdempotentOnValidJson ==
  san.stage = "recleaned" =>
    /\ IsValidJson(san.server) => san.server2 = san.server
    /\ IsValidJson(san.gpt) => san.gpt2 = san.gpt

\* The first '{' of a text lies before its last '}'.
BraceBeforeBrace(s) ==
  IndexOf(s, "{") # -1 /\ IndexOf(s, "{") < LastIndexOf(s, "}")

\* The text from its first '{' to its last '}', both included.
BraceSpan(s) == Substring(s, IndexOf(s, "{"), LastIndexOf(s, "}") + 1)

\* C15: boundary extraction. For a text made of prose, a fence, a JSON
\* object, a closing fence and prose, each cleanJsonResponse returns the
\* fence-stripped text from its first '{' to its last '}'; for a text whose
\* fence-stripped form has no '{' before a '}', it returns that form
\* un-sliced (trimmed, as the function trims).
C15_BoundaryExtraction ==
  san.stage \in {"cleaned", "recleaned"} =>
    LET forServer == ServerFenceStripped(san.text)
        forGpt == GptFenceStripped(san.text) IN
    /\ san.text \in FencedTexts =>
         /\ san.server = BraceSpan(forServer)
         /\ san.gpt = BraceSpan(forGpt)
    /\ ~BraceBeforeBrace(forServer) => san.server = forServer
    /\ ~BraceBeforeBrace(forGpt) => san.gpt = Trim(forGpt)

\* ---------------------------------------------------------- coercion claims
\* Every field of the company holds a value of its documented type.
CompanyTyped(c) ==
  /\ \A g \in CompanyStrings : c[g].t = "string"
  /\ \A g \in CompanyNumbers : c[g].t = "number"

\* Every field of the event, and of each of its companies, holds a value
\* of its documented type.
EventTyped(e) ==
  /\ \A f \in EventStrings : e[f].t = "string"
  /\ \A f \in EventNumbers : e[f].t = "number"
  /\ e.companies.t = "array"
  /\ \A k \in 1..Len(e.companies.items) : CompanyTyped(e.companies.items[k])

\* The event only lacks fields: each field is missing or of its type.
EventTypedWhereGiven(e) ==
  /\ \A f \in EventStrings : e[f].t \in {"undefined", "string"}
  /\ \A f \in EventNumbers : e[f].t \in {"undefined", "number"}
  /\ e.companies.t \in {"undefined", "array"}
  /\ e.companies.t = "array" =>
       \A k \in 1..Len(e.companies.items) :
         LET c == e.companies.items[k] IN
         /\ \A g \in CompanyStrings : c[g].t \in {"undefined", "string"}
         /\ \A g \in CompanyNumbers : c[g].t \in {"undefined", "number"}

\* C16: coercion is total. For events that lack any subset of their fields
\* (companies and the fields of a company included), every event processEvents
\* or processEvent returns has every field, and every field of each company,
\* with a value of its documented type.
C16_CoercionTotal ==
  ( /\ coerce.stage = "done"
    /\ \A i \in 1..Len(coerce.events) : EventTypedWhereGiven(coerce.events[i]) )
  => \A i \in 1..Len(coerce.out) : EventTyped(coerce.out[i])

\* C17: in a batch processEvents returns, every id is there and no two
\* events have the same id, whether the ids were given or generated.
C17_IdsDistinct ==
  coerce.stage = "done" =>
    /\ \A i \in 1..Len(coerce.out) : coerce.out[i].id.t = "number"
    /\ \A i, j \in 1..Len(coerce.out) :
         i # j => coerce.out[i].id # coerce.out[j].id

\* The value is one the field may hold: of its type and inside its range
\* (riskScore 0..100, confidence 0..1, price above 0).
ValidEventValue(f, v) ==
  CASE f \in EventStrings -> v.t = "string"
    [] f = "riskScore" -> v.t = "number" /\ v.n \in 0..100
    [] OTHER -> v.t = "number"

ValidCompanyValue(g, v) ==
  CASE g \in CompanyStrings -> v.t = "string"
    [] g = "confidence" -> v.t = "number" /\ v.n \in 0..100
    [] g = "price" -> v.t = "number" /\ v.n > 0
    [] OTHER -> v.t = "number"

\* C18: coercion keeps valid values. A field that is given with a value of
\* its type and range comes out unchanged, the boundary values 0 of
\* confidence, riskScore, change and marketImpact included.
C18_KeepsValidValues ==
  coerce.stage = "done" =>
    \A i \in 1..Len(coerce.events) :
      LET in == coerce.events[i]
          out == coerce.out[i] IN
      /\ \A f \in EventStrings \cup EventNumbers :
           ValidEventValue(f, in[f]) => out[f] = in[f]
      /\ in.companies.t = "array" =>
           /\ Len(out.companies.items) = Len(in.companies.items)
           /\ \A k \in 1..Len(in.companies.items), g \in CompanyFields :
                ValidCompanyValue(g, in.companies.items[k][g]) =>
                  out.companies.items[k][g] = in.companies.items[k][g]

\* C19: whatever the model gave, every event that leaves the coercion has
\* its riskScore in 0..100, and each of its companies a confidence in 0..1
\* and a price above 0.
C19_RangesClamped ==
  coerce.stage = "done" =>
    \A i \in 1..Len(coerce.out) :
      /\ ValidEventValue("riskScore", coerce.out[i].riskScore)
      /\ \A k \in 1..Len(coerce.out[i].companies.items) :
           /\ ValidCompanyValue("confidence", coerce.out[i].companies.items[k].confidence)
           /\ ValidCompanyValue("price", coerce.out[i].companies.items[k].price)

\* C20: each static fallback dataset passes the rules set for coerced
\* output. Every field of every event and company is there with a value of
\* its type, the ids are distinct, type, severity, status and category are
\* values of their documented enums, riskScore lies in 0..100, confidence
\* in 0..1 and price above 0.
C20_FallbackDatasetsValid ==
  fb.stage = "returned" =>
    /\ \A i, j \in 1..Len(fb.events) :
         i # j => fb.events[i].id # fb.events[j].id
    /\ \A i \in 1..Len(fb.events) :
         LET e == fb.events[i] IN
         /\ EventTyped(e)
         /\ e.type.s \in DocumentedTypes
         /\ e.severity.s \in DocumentedSeverities
         /\ e.status.s \in DocumentedStatuses
         /\ ValidEventValue("riskScore", e.riskScore)
         /\ \A k \in 1..Len(e.companies.items) :
              LET c == e.companies.items[k] IN
              /\ c.category.s \in DocumentedCategories
              /\ ValidCompanyValue("confidence", c.confidence)
              /\ ValidCompanyValue("price", c.price)

\* ---------------------------------------------------------------------- C22
HealthGated == {"fast", "secure"}

\* The health check of call c has just answered false (or was aborted).
HealthFailsNow(c) == calls[c].st = "health" /\ calls'[c].fail = "health"

\* What every call record of a health-gated service shows.
HealthGatedCalls ==
  sut \in HealthGated =>
    \A c \in CallIds :
       /\ calls[c].post > 0 =>
            /\ calls[c].health = 1
            /\ calls[c].st # "health"
            /\ calls[c].fail # "health"
            /\ calls[c].post = 1
       /\ calls[c].fail = "health" =>
            /\ calls[c].post = 0
            /\ calls[c].res = getFallbackData

\* What the step of a failing health check leaves alone.
HealthFailureKeepsCache ==
  sut \in HealthGated =>
    \A c \in CallIds :
       HealthFailsNow(c) =>
         /\ cache' = cache
         /\ lastFetch' = lastFetch
         /\ calls'[c].post = 0

\* C22: in FastApiService and SecureApiService a production sends POST
\* /analyze-crisis only after its own health check succeeded, and exactly
\* once; a production whose health check failed or timed out sends no
\* analyze-crisis request and returns the static fallback, and the step in
\* which it fails leaves cache and lastFetch as they were.
C22_HealthGating == []HealthGatedCalls /\ [][HealthFailureKeepsCache]_vars

\* A production found the backend healthy, posted and cached its result; a
\* later production, after the entry expired, failed its health check and
\* returned the fallback while the cache entry stayed.
C22_Witness ==
  /\ sut \in HealthGated
  /\ cache # NoData
  /\ \E c, d \in CallIds :
       /\ calls[c].post = 1 /\ calls[c].how = "fresh"
       /\ calls[d].fail = "health" /\ calls[d].path = "start"
       /\ calls[d].res = getFallbackData

\* ---------------------------------------------------------------------- C23
\* C23: the cache of a service holds nothing or a result produced by the
\* backend; data of a static fallback is never the cache entry.
C23_OnlyBackendResultsCached ==
  sut \in Services => cache.src \in {"none", "backend"}

\* ---------------------------------------------------------------------- C24
\* C24: every call of getCrisisData that was issued eventually settles, the
\* in-flight flag of FastApiService does not stay set, and every request the
\* server handed to the model is eventually answered, whatever the backend
\* and the model do.
C24_EveryCallResolves ==
  /\ \A c \in CallIds :
       (sut \in HealthGated /\ calls[c].st # "new") ~> (calls[c].st \in {"done", "failed"})
  /\ isLoading ~> ~isLoading
  /\ \A r \in ReqIds : (reqs[r].st = "model") ~> (reqs[r].st = "done")

\* ---------------------------------------------------------------------- C25
\* The events of a dataset whose riskScore is at least 70.
HighRiskOf(events) ==
  Cardinality({i \in 1..Len(events) :
                 events[i].riskScore.t = "number" /\ events[i].riskScore.n >= 70})

\* C25: in every static fallback CrisisData (FastApiService, SecureApiService,
\* GPTCrisisService) totalEvents is the number of events and highRiskEvents
\* the number of events with riskScore >= 70.
C25_CountsMatchEvents ==
  (fb.stage = "returned" /\ fb.from # "server") =>
    /\ fb.totalEvents = Num(Len(fb.events))
    /\ fb.highRiskEvents = Num(HighRiskOf(fb.events))

\* ---------------------------------------------------------------------- C26
\* C26: the cache never holds the result of a production that was in flight
\* when forceRefresh() / clearCache() invalidated the cache, so no later
\* cache hit can serve data older than the invalidation.
C26_InvalidationNotUndone ==
  (sut \in Services /\ cache.src = "backend") => ~calls[cache.id].stale

\* ---------------------------------------------------------------------- C27
\* C27: a page sets isFeatureReady only in a state where the user holds a
\* valid consent for every required disclaimer of the category of its feature;
\* a page whose consent check found consent missing shows the disclaimer modal.
C27_ReadyOnlyWithConsent ==
  /\ [][(sut = "page" /\ ~page.isFeatureReady /\ page'.isFeatureReady) =>
          HasAllConsents(page'.zone, page'.consents, page'.now,
                         ConsentCategory(page'.feature))]_vars
  /\ [](sut = "page" /\ page.stage = "settled" /\ ~page.hasAllConsents
          => page.showDisclaimerModal)

\* ---------------------------------------------------------------------- C28
\* C28: a notification invokes the callback of every subscription that
\* existed when it started, whatever the callbacks unsubscribe meanwhile; and
\* the subscriptions in updateCallbacks are exactly those issued whose
\* unsubscribe function was not called.
C28_DeliveryAndUnsubscribe ==
  sut = "subscribers" =>
    /\ rt.last.any => rt.last.atStart \subseteq rt.last.called
    /\ {rt.updateCallbacks[i].sub : i \in 1..Len(rt.updateCallbacks)}
         = (1..Len(rt.subs)) \ rt.unsubscribed

\* ---------------------------------------------------------------------- C29
\* C29: at most one interval timer of each type is set, and no update of an
\* interval callback or of the initial data load reaches a subscriber while
\* the manager is stopped.
C29_OneIntervalAndQuietAfterStop ==
  sut = "realtime" =>
    /\ \A t \in IntervalTypes : rt.live[t] <= 1
    /\ (rt.last.any /\ rt.last.called # {}
          /\ rt.last.from \in {"initial", "interval"}) => rt.last.running

\* ---------------------------------------------------------------------- C30
\* C30: for every text the server's cleanJsonResponse and
\* GPTCrisisService.cleanJsonResponse return the same string.
C30_SanitizersAgree ==
  san.stage \in {"cleaned", "recleaned"} => san.server = san.gpt

====
